---- MODULE Spec2Model ----
(***************************************************************************)
(* Streaming dual-channel transcription pipeline of transcribe.py:         *)
(* AudioStreamBuffer, TranscriptAccumulator, StreamingTranscriptionServer  *)
(* (the stream registry), the per-connection protocol handler and the     *)
(* processing loop process_streams.                                        *)
(*                                                                         *)
(* Time is wall-clock time in integer milliseconds.  A text is a sequence  *)
(* of tokens: a word, the blank " ", a punctuation mark, or one of the two *)
(* placeholder markers.  A sample is named by its position in the order of *)
(* appends to its buffer (the code's total_samples counter).               *)
(***************************************************************************)
EXTENDS Integers, Sequences, FiniteSets, TLC

VARIABLES
    now,             \* time.time(), in ms
    audio_buffers,   \* StreamingTranscriptionServer.audio_buffers: id -> AudioStreamBuffer
    active_streams,  \* StreamingTranscriptionServer.active_streams
    conn,            \* per connection thread: its position in handle_client and its locals
    client_streams,  \* handle_client's local client_streams, per connection
    started_by,      \* history: per id, the connection whose start_stream last registered it
    loop,            \* the thread of process_streams: its position and its locals
    buffer_lock,     \* per id, the holder of AudioStreamBuffer.buffer_lock
    sink,            \* history: the updates the accumulators returned to the loop, per id,
                     \* and the updates handed to broadcast_transcript_update, in order
    main,            \* the thread of run: its position, with streaming_server.running,
                     \* which it alone writes, and the time its join began
    wire,            \* per connection: the bytes its client has sent that conn.recv has
                     \* not returned yet, with the records sent and the replies received
    last             \* history: what the last step did, returned and sent

vars == <<now, audio_buffers, active_streams, conn, client_streams, started_by,
          loop, buffer_lock, sink, main, wire, last>>

\* The state of the processing loop, which the steps of the other
\* specifications never touch
engine == <<loop, buffer_lock, sink>>

\* The state of the registry's clients, which the buffer and accumulator
\* operations never touch
threads == <<active_streams, conn, client_streams, started_by>>

----------------------------------------------------------------------------
(* Configuration, transcribe.py lines 29-33 *)

CHUNK_DURATION_MS == 30000
MIN_CHUNK_DURATION_MS == 2000
SENTENCE_TIMEOUT_MS == 1000
BUFFER_OVERLAP_MS == 1000

\* WHISPER_SAMPLE_RATE is 16000 in the source; the model runs the same
\* formulas at a few samples per second.
SampleRate == 1

chunk_samples == (SampleRate * CHUNK_DURATION_MS) \div 1000
min_samples == (SampleRate * MIN_CHUNK_DURATION_MS) \div 1000
overlap_samples == (SampleRate * BUFFER_OVERLAP_MS) \div 1000

\* deque(maxlen=50) in the source; the model keeps a shorter history.
SegmentsMaxLen == 2

Min(a, b) == IF a <= b THEN a ELSE b

----------------------------------------------------------------------------
(* Texts *)

Markers == {"[BLANK_AUDIO]", "[AUDIO OUT]"}
Terminals == {".", "?", "!"}

\* str.replace(marker, ""), for both markers
RECURSIVE RemoveMarkers(_)
RemoveMarkers(t) ==
    IF t = <<>> THEN <<>>
    ELSE IF Head(t) \in Markers THEN RemoveMarkers(Tail(t))
    ELSE <<Head(t)>> \o RemoveMarkers(Tail(t))

RECURSIVE LStrip(_)
LStrip(t) == IF t # <<>> /\ Head(t) = " " THEN LStrip(Tail(t)) ELSE t

RECURSIVE RStrip(_)
RStrip(t) ==
    IF t # <<>> /\ t[Len(t)] = " " THEN RStrip(SubSeq(t, 1, Len(t) - 1)) ELSE t

\* str.strip()
Strip(t) == RStrip(LStrip(t))

CleanText(t) == Strip(RemoveMarkers(t))

\* EndsWithTerminal for the full stop alone
EndsWithTerminal_full_stop(t) == t # <<>> /\ t[Len(t)] = "."

\* add_segment, line 83
EndsWithTerminal(t) == t # <<>> /\ t[Len(t)] \in Terminals

\* f"{x:.1f}" of a time in seconds: tenths of a second, rounded
Fmt1(ms) == (ms + 50) \div 100

TokenCode(tok) ==
    CASE tok = " " -> 1
      [] tok = "." -> 2
      [] tok = "?" -> 3
      [] tok = "!" -> 4
      [] tok = "hello" -> 5
      [] tok = "world" -> 6
      [] tok = "ok" -> 7
      [] OTHER -> 8

\* The builtin hash has 64-bit results; the model's hash is a polynomial hash
\* with results below HashMod.
HashMod == 65521

RECURSIVE TextHash(_)
TextHash(t) ==
    IF t = <<>> THEN 7
    ELSE (TextHash(SubSeq(t, 1, Len(t) - 1)) * 31 + TokenCode(t[Len(t)])) % HashMod

\* hash((clean_text, start_time, end_time)): the builtin hash of a tuple, a
\* deterministic function of the three values
TupleHash(clean_text, start_time, end_time) ==
    ((((TextHash(clean_text) * 257 + start_time) % HashMod) * 257) + end_time) % HashMod

----------------------------------------------------------------------------
(* TranscriptAccumulator *)

NewAccumulator(t) ==
    [current_sentence |-> <<>>,
     sentence_start_time |-> 0,
     last_update_time |-> t,
     last_segment_hash |-> 0,
     segments_buffer |-> <<>>]

NoUpdate == [emitted |-> FALSE, text |-> <<>>, timestamp |-> <<0, 0>>, stream_type |-> "none"]

MkUpdate(text, t0, t1, stream_type) ==
    [emitted |-> TRUE, text |-> text, timestamp |-> <<Fmt1(t0), Fmt1(t1)>>,
     stream_type |-> stream_type]

\* DequeAppend on a deque without maxlen
DequeAppend_unbounded(dq, x) == dq \o <<x>>

\* deque(maxlen=...).append: a full deque drops its oldest entry
DequeAppend(dq, x) ==
    IF Len(dq) >= SegmentsMaxLen THEN SubSeq(dq, 2, Len(dq)) \o <<x>> ELSE dq \o <<x>>

\* Rejected with a duration of 1.0 s refused too
Rejected_at_one_second(clean_text, segment) ==
    clean_text = <<>> \/ segment.end_time - segment.start_time <= 1000

\* add_segment, line 61: the segment is dropped
Rejected(clean_text, segment) ==
    clean_text = <<>> \/ segment.end_time - segment.start_time < 1000

\* IsDuplicate without the comparison
IsDuplicate_never(acc, segment_hash) == FALSE

\* add_segment, line 66: the segment repeats the last accepted one
IsDuplicate(acc, segment_hash) == segment_hash = acc.last_segment_hash

\* add_segment: the accumulator after the call and the update returned
add_segment(acc, segment, stream_type, t) ==
    LET acc1 == [acc EXCEPT !.last_update_time = t]
        clean_text == CleanText(segment.text)
        segment_hash == TupleHash(clean_text, segment.start_time, segment.end_time)
    IN  IF Rejected(clean_text, segment)
        THEN [acc |-> acc1, update |-> NoUpdate]
        ELSE IF IsDuplicate(acc, segment_hash)
        THEN [acc |-> acc1, update |-> NoUpdate]
        ELSE
          LET start == IF acc.current_sentence = <<>> THEN segment.start_time
                       ELSE acc.sentence_start_time
              spaced == IF acc.current_sentence # <<>>
                           /\ acc.current_sentence[Len(acc.current_sentence)] # " "
                        THEN acc.current_sentence \o <<" ">>
                        ELSE acc.current_sentence
              sentence == spaced \o clean_text
              acc2 == [acc1 EXCEPT !.last_segment_hash = segment_hash,
                                   !.segments_buffer = DequeAppend(acc.segments_buffer, segment),
                                   !.sentence_start_time = start,
                                   !.current_sentence = sentence]
          IN  IF EndsWithTerminal(clean_text)
              THEN [acc |-> [acc2 EXCEPT !.current_sentence = <<>>],
                    update |-> MkUpdate(Strip(sentence), start, segment.end_time, stream_type)]
              ELSE [acc |-> acc2, update |-> NoUpdate]

\* TimedOut without the test of current_sentence
TimedOut_any_sentence(acc, t) == t - acc.last_update_time > SENTENCE_TIMEOUT_MS

\* TimedOut with the timeout taken in the wrong unit
TimedOut_wrong_unit(acc, t) ==
    acc.current_sentence # <<>> /\ t - acc.last_update_time > SENTENCE_TIMEOUT_MS \div 1000

\* check_timeout, lines 100-101: the condition to emit
TimedOut(acc, t) ==
    acc.current_sentence # <<>> /\ t - acc.last_update_time > SENTENCE_TIMEOUT_MS

\* check_timeout without line 104: the sentence is emitted and kept
check_timeout_keeps_sentence(acc, stream_type, t) ==
    IF TimedOut(acc, t)
    THEN [acc |-> acc,
          update |-> MkUpdate(Strip(acc.current_sentence), acc.sentence_start_time,
                              acc.sentence_start_time + SENTENCE_TIMEOUT_MS, stream_type)]
    ELSE [acc |-> acc, update |-> NoUpdate]

\* check_timeout
check_timeout(acc, stream_type, t) ==
    IF TimedOut(acc, t)
    THEN [acc |-> [acc EXCEPT !.current_sentence = <<>>],
          update |-> MkUpdate(Strip(acc.current_sentence), acc.sentence_start_time,
                              acc.sentence_start_time + SENTENCE_TIMEOUT_MS, stream_type)]
    ELSE [acc |-> acc, update |-> NoUpdate]

----------------------------------------------------------------------------
(* AudioStreamBuffer *)

NewBuffer(stream_type, t) ==
    [stream_type |-> stream_type,
     audio_buffer |-> <<>>,
     total_samples |-> 0,
     last_chunk_time |-> t,
     accumulator |-> NewAccumulator(t)]

\* np.frombuffer(audio_data, dtype=np.float32): the number of samples in a
\* payload of nbytes bytes, or -1 where it raises ValueError
FromBuffer(nbytes) == IF nbytes % 4 = 0 THEN nbytes \div 4 ELSE -1

\* add_audio_data with a payload of n samples
add_audio_data(buf, n) ==
    [buf EXCEPT !.audio_buffer = @ \o [i \in 1..n |-> buf.total_samples + i],
                !.total_samples = @ + n]

Reversed(s) == [i \in 1..Len(s) |-> s[Len(s) + 1 - i]]

\* ExtendLeft as deque.extend: the items are put at the right end
ExtendLeft_as_extend(dq, items) == dq \o Reversed(items)

\* deque.extendleft(items): each item in turn is put at the left end
RECURSIVE ExtendLeft(_, _)
ExtendLeft(dq, items) ==
    IF items = <<>> THEN dq ELSE ExtendLeft(<<Head(items)>> \o dq, Tail(items))

\* should_process with the time-based flush not held back by min_samples
should_process_no_min(buf, t) ==
    \/ Len(buf.audio_buffer) >= chunk_samples
    \/ t - buf.last_chunk_time >= CHUNK_DURATION_MS

\* get_chunk_if_ready, lines 151-154
should_process(buf, t) ==
    \/ Len(buf.audio_buffer) >= chunk_samples
    \/ /\ Len(buf.audio_buffer) >= min_samples
       /\ t - buf.last_chunk_time >= CHUNK_DURATION_MS

\* ChunkSize without the cap
ChunkSize_whole_buffer(current_buffer_size) == current_buffer_size

\* get_chunk_if_ready, line 158
ChunkSize(current_buffer_size) == Min(current_buffer_size, chunk_samples)

\* OverlapSize with nothing put back
OverlapSize_none(chunk_size) == 0

\* get_chunk_if_ready, line 162
OverlapSize(chunk_size) == Min(overlap_samples, chunk_size)

\* get_chunk_if_ready: whether a chunk is returned, the chunk, the number of
\* samples put back, and the buffer after the call
get_chunk_if_ready(buf, t) ==
    LET current_buffer_size == Len(buf.audio_buffer) IN
    IF should_process(buf, t) /\ current_buffer_size > 0
    THEN LET chunk_size == ChunkSize(current_buffer_size)
             chunk == SubSeq(buf.audio_buffer, 1, chunk_size)
             rest == SubSeq(buf.audio_buffer, chunk_size + 1, current_buffer_size)
             overlap_size == OverlapSize(chunk_size)
             overlap_data == SubSeq(chunk, chunk_size - overlap_size + 1, chunk_size)
             put_back == IF overlap_size > 0 THEN ExtendLeft(rest, Reversed(overlap_data))
                         ELSE rest
         IN  [ready |-> TRUE, chunk |-> chunk, overlap |-> overlap_size,
              buf |-> [buf EXCEPT !.audio_buffer = put_back, !.last_chunk_time = t]]
    ELSE [ready |-> FALSE, chunk |-> <<>>, overlap |-> 0, buf |-> buf]

----------------------------------------------------------------------------
(* State shared by the specifications *)

StreamIds == {"s1", "s2"}
StreamTypes == {"microphone", "system"}
Conns == {1, 2}

\* A connection thread: pc is its position in handle_client ("new" before
\* the connection is accepted, "recv" at conn.recv, "closed" after
\* conn.close()), id is the stream_id of the registry operation in progress,
\* mode tells a stop_stream called for a request from one called by the
\* cleanup of the finally block, and todo is what the cleanup loop has still
\* to visit.
NoConn == [pc |-> "new", mode |-> "request", id |-> "", todo |-> {}]

\* The record of the last step.  op is the buffer or accumulator operation
\* called, or "step" for a step of a connection thread inside a registry
\* operation; "reply" for the step that ends the handling of a request
\* record, "cleanup" for the step that ends a stop_stream of the finally
\* block.
NoLast ==
    [op |-> "none", conn |-> 0, id |-> "", ok |-> TRUE,
     kind |-> "",                   \* the kind of request record
     call |-> "",                   \* the registry operation that returned or raised
     replies |-> 0,                 \* records sent to the client for the request
     reply |-> "none",              \* shape of the last record sent
     open |-> TRUE,                 \* the connection is still served afterwards
     asr_calls |-> 0,               \* invocations of the ASR engine by the operation
     gate |-> "none",               \* the quality gate's verdict on the audio, if it ran
     analysis |-> [error |-> FALSE, duration |-> 0, silence |-> 0,
                   max_amplitude |-> 0, rms_level |-> 0],
                                    \* transcribe_chunk: what analyze_audio_content returned
     samples |-> 0,                 \* add_audio_data: samples in the payload
     ready |-> FALSE,               \* get_chunk_if_ready returned a chunk
     chunk |-> <<>>, overlap |-> 0, \* the chunk, and the samples put back
     chunks |-> <<>>,               \* the chunks get_chunk_if_ready has returned so
                                    \* far, in order
     segment |-> [text |-> <<>>, start_time |-> 0, end_time |-> 0],
     repeat |-> FALSE,              \* add_segment: the call before was add_segment
                                    \* with the same segment
     pending |-> <<>>,              \* the segments an accumulator has accepted since
                                    \* its last update
     update |-> NoUpdate]           \* the update an accumulator call returned

\* The step is a call of op: every operation writes last and leaves the clock
\* alone, and only the passing of time leaves last as it was.
Did(op) == last'.op = op /\ now' = now

\* The loop thread: pc is its position in process_streams, todo what is
\* left of list(active_streams), id the stream_id of the for loop, chunk
\* and segments the locals of the same names, update the update about to
\* be broadcast, stalled tells an ASR call that never returns.  The local
\* buffer is a reference to the AudioStreamBuffer of id: the entry of
\* audio_buffers while detached is empty, and the object itself, kept in
\* detached, once del has taken the entry out of audio_buffers.
NoLoop ==
    [pc |-> "while", todo |-> {}, id |-> "", chunk |-> <<>>, segments |-> <<>>,
     update |-> NoUpdate, stalled |-> FALSE, detached |-> <<>>]

\* del audio_buffers[id] removes the key; the object obj lives on while the
\* loop thread lp refers to it, which it does at the positions of
\* process_streams where its local buffer is bound
Detach(lp, id, obj) ==
    IF /\ lp.id = id
       /\ lp.pc \in {"get_locked", "transcribe", "asr", "segments", "broadcast",
                     "broadcast_timeout"}
       /\ lp.detached = <<>>
    THEN [lp EXCEPT !.detached = <<obj>>]
    ELSE lp

NoSink == [produced |-> [id \in StreamIds |-> <<>>], sent |-> <<>>]

\* run in its accept loop ("serve"); pc is "join" once the finally block has
\* cleared running, and "exited" when run has returned
NoMain == [pc |-> "serve", running |-> TRUE, join_at |-> 0]

\* A connection on which the client has sent nothing
NoWire == [inbound |-> <<>>, records |-> <<>>, replies |-> <<>>]

InitEngine ==
    /\ loop = NoLoop
    /\ buffer_lock = [id \in StreamIds |-> "free"]
    /\ sink = NoSink
    /\ wire = [c \in Conns |-> NoWire]
    /\ main = NoMain

InitCommon ==
    /\ InitEngine
    /\ now = 0
    /\ active_streams = {"s1"}
    /\ audio_buffers = [id \in {"s1"} |-> NewBuffer("microphone", 0)]
    /\ conn = [c \in Conns |-> NoConn]
    /\ client_streams = [c \in Conns |-> {}]
    /\ started_by = [id \in StreamIds |-> 0]
    /\ last = NoLast

----------------------------------------------------------------------------
(* SpecBuf: one AudioStreamBuffer, its two operations called in any order  *)
(* while time passes.                                                      *)

\* Payload sizes, in samples
BufPayloads == {0, 1, min_samples, chunk_samples - 1}

\* The clock of SpecBuf moves in half chunk durations.
BufTickMs == CHUNK_DURATION_MS \div 2
MaxBufTicks == 4

\* Samples appended to one buffer
MaxTotalSamples == 2 * chunk_samples + min_samples

\* add_audio_data on the buffer of id; h is the history the step hands on
BufAddWith(id, n, h) ==
    /\ audio_buffers[id].total_samples + n <= MaxTotalSamples
    /\ audio_buffers' = [audio_buffers EXCEPT ![id] = add_audio_data(@, n)]
    /\ last' = [h EXCEPT !.op = "add_audio_data", !.id = id, !.samples = n]
    /\ UNCHANGED <<wire, main, engine, now, threads>>

BufAdd(id, n) == BufAddWith(id, n, NoLast)

\* get_chunk_if_ready on the buffer of id; h is the history the step hands on
BufGetWith(id, h) ==
    LET r == get_chunk_if_ready(audio_buffers[id], now) IN
    /\ audio_buffers' = [audio_buffers EXCEPT ![id] = r.buf]
    /\ last' = [h EXCEPT !.op = "get_chunk_if_ready", !.id = id, !.ready = r.ready,
                         !.chunk = r.chunk, !.overlap = r.overlap]
    /\ UNCHANGED <<wire, main, engine, now, threads>>

BufGet(id) == BufGetWith(id, NoLast)

BufTick ==
    /\ now + BufTickMs <= MaxBufTicks * BufTickMs
    /\ now' = now + BufTickMs
    /\ UNCHANGED <<audio_buffers, threads, engine, wire, main, last>>

NextBuf ==
    \/ \E id \in DOMAIN audio_buffers, n \in BufPayloads : BufAdd(id, n)
    \/ \E id \in DOMAIN audio_buffers : BufGet(id)
    \/ BufTick

SpecBuf == InitCommon /\ [][NextBuf]_vars

\* C1: every call of get_chunk_if_ready that returns a chunk returns between
\* 1 and chunk_samples samples, and puts min(overlap_samples, chunk length)
\* samples, the last ones of the chunk, back at the head of the buffer.
C1_ChunkAndOverlap ==
    [][(Did("get_chunk_if_ready") /\ last'.ready) =>
        LET before == audio_buffers[last'.id].audio_buffer
            after == audio_buffers'[last'.id].audio_buffer
            n == Len(last'.chunk)
            k == Min(overlap_samples, n)
        IN  /\ n >= 1
            /\ n <= chunk_samples
            /\ last'.chunk = SubSeq(before, 1, n)
            /\ Len(after) = Len(before) - n + k
            /\ SubSeq(after, 1, k) = SubSeq(last'.chunk, n - k + 1, n)
            /\ SubSeq(after, k + 1, Len(after)) = SubSeq(before, n + 1, Len(before))]_vars

\* C1 witness: a time-based flush returned a chunk shorter than chunk_samples
\* and put overlap_samples of it back.
C1_Witness ==
    /\ last.op = "get_chunk_if_ready" /\ last.ready
    /\ Len(last.chunk) < chunk_samples
    /\ last.overlap = overlap_samples
    /\ Len(audio_buffers[last.id].audio_buffer) >= overlap_samples

\* C2: get_chunk_if_ready returns a chunk exactly when the buffer holds at
\* least chunk_samples, or at least min_samples with at least the chunk
\* duration elapsed since last_chunk_time; last_chunk_time is the time of
\* the buffer's creation until an extraction sets it to the time of that
\* extraction; a call that returns nothing leaves the buffer as it was.
C2_ReadyIff ==
    [][/\ Did("get_chunk_if_ready") =>
            LET buf == audio_buffers[last'.id]
                size == Len(buf.audio_buffer)
                elapsed == now - buf.last_chunk_time
            IN  /\ last'.ready <=>
                     (size >= chunk_samples
                      \/ (size >= min_samples /\ elapsed >= CHUNK_DURATION_MS))
                /\ last'.ready => audio_buffers'[last'.id].last_chunk_time = now
                /\ ~last'.ready => audio_buffers'[last'.id] = buf
       /\ \A id \in DOMAIN audio_buffers \cap DOMAIN audio_buffers' :
            audio_buffers'[id].last_chunk_time # audio_buffers[id].last_chunk_time
                => Did("get_chunk_if_ready") /\ last'.id = id /\ last'.ready]_vars

\* C2 witness: a call returned nothing although min_samples were buffered,
\* because less than the chunk duration had elapsed.
C2_Witness ==
    /\ last.op = "get_chunk_if_ready" /\ ~last.ready
    /\ Len(audio_buffers[last.id].audio_buffer) >= min_samples
    /\ now - audio_buffers[last.id].last_chunk_time < CHUNK_DURATION_MS
    /\ now > audio_buffers[last.id].last_chunk_time
    /\ audio_buffers[last.id].last_chunk_time > 0

\* C24: add_audio_data lengthens the buffer by the samples of its payload,
\* an extraction of n samples changes its length by min(overlap_samples, n)
\* minus n, and nothing but an extraction shortens it.
C24_LengthChanges ==
    [][\A id \in DOMAIN audio_buffers \cap DOMAIN audio_buffers' :
        LET before == Len(audio_buffers[id].audio_buffer)
            after == Len(audio_buffers'[id].audio_buffer)
            n == Len(last'.chunk)
        IN  /\ (Did("add_audio_data") /\ last'.id = id) => after = before + last'.samples
            /\ (Did("get_chunk_if_ready") /\ last'.id = id /\ last'.ready)
                  => after = before - n + Min(overlap_samples, n)
            /\ after < before
                  => (Did("get_chunk_if_ready") /\ last'.id = id /\ last'.ready)]_vars

\* C24 witness: a full chunk has been extracted from a buffer that held
\* more, and more than the overlap is left
C24_Witness ==
    /\ last.op = "get_chunk_if_ready" /\ last.ready
    /\ Len(last.chunk) = chunk_samples
    /\ Len(audio_buffers[last.id].audio_buffer) > overlap_samples

----------------------------------------------------------------------------
(* SpecChunks: one AudioStreamBuffer and the chunks it has returned *)

\* add_audio_data; the chunks returned so far stay in the history
ChunksAdd(id, n) == BufAddWith(id, n, [NoLast EXCEPT !.chunks = last.chunks])

ChunksGet(id) ==
    LET r == get_chunk_if_ready(audio_buffers[id], now) IN
    BufGetWith(id, [NoLast EXCEPT !.chunks = IF r.ready THEN Append(last.chunks, r.chunk)
                                              ELSE last.chunks])

NextChunks ==
    \/ \E id \in DOMAIN audio_buffers, n \in {min_samples, chunk_samples - 1} :
          ChunksAdd(id, n)
    \/ \E id \in DOMAIN audio_buffers : ChunksGet(id)
    \/ BufTick

SpecChunks == InitCommon /\ [][NextChunks]_vars

\* The samples of the chunks, in order, without the samples each chunk after
\* the first repeats from the chunk before it
RECURSIVE Delivered(_)
Delivered(chunks) ==
    IF chunks = <<>> THEN <<>>
    ELSE IF Len(chunks) = 1 THEN chunks[1]
    ELSE LET n == Len(chunks)
             k == Min(overlap_samples, Len(chunks[n - 1]))
         IN  Delivered(SubSeq(chunks, 1, n - 1)) \o SubSeq(chunks[n], k + 1, Len(chunks[n]))

RECURSIVE DrainCount(_, _, _)
DrainCount(buf, t, fuel) ==
    LET r == get_chunk_if_ready(buf, t) IN
    IF fuel = 0 \/ ~r.ready THEN 0
    ELSE 1 + DrainCount(r.buf, t + CHUNK_DURATION_MS, fuel - 1)

\* The chunks among chunks that hold sample
ChunksWith(chunks, sample) ==
    {i \in 1..Len(chunks) : \E j \in 1..Len(chunks[i]) : chunks[i][j] = sample}

\* C32: an extraction leaves the buffer strictly shorter, a buffer that holds
\* no more than the overlap put back is not ready however long it waits, the
\* calls of get_chunk_if_ready with no add_audio_data between them return
\* fewer chunks than the buffer holds samples and then nothing, and no sample
\* is returned in more than two chunks.
C32_DrainTerminates ==
    [][\A id \in DOMAIN audio_buffers' :
        LET before == audio_buffers[id]
            buf == audio_buffers'[id]
            size == Len(buf.audio_buffer)
        IN  /\ (Did("get_chunk_if_ready") /\ last'.id = id /\ last'.ready) =>
                  /\ size < Len(before.audio_buffer)
                  /\ size >= last'.overlap
                  /\ size = last'.overlap =>
                        DrainCount(buf, now + CHUNK_DURATION_MS, 1) = 0
                  /\ \A j \in 1..Len(last'.chunk) :
                        Cardinality(ChunksWith(last'.chunks, last'.chunk[j])) <= 2
            /\ size <= overlap_samples => DrainCount(buf, now + CHUNK_DURATION_MS, 1) = 0
            /\ (size > 0 /\ buf # before) =>
                  DrainCount(buf, now + CHUNK_DURATION_MS, size + 1) < size]_vars

\* C32 witness: a full chunk and then the rest of the buffer have been
\* returned, every sample appended has been delivered, and a call a chunk
\* duration later has returned nothing, the buffer holding the overlap alone.
C32_Witness ==
    /\ last.op = "get_chunk_if_ready" /\ ~last.ready
    /\ Len(last.chunks) = 2
    /\ Len(last.chunks[1]) = chunk_samples
    /\ Len(last.chunks[2]) < chunk_samples
    /\ Len(audio_buffers[last.id].audio_buffer) = overlap_samples
    /\ audio_buffers[last.id].total_samples > chunk_samples
    /\ now - audio_buffers[last.id].last_chunk_time >= CHUNK_DURATION_MS
    /\ Cardinality(ChunksWith(last.chunks, chunk_samples)) = 2

----------------------------------------------------------------------------
(* SpecAcc: one TranscriptAccumulator, its two operations called in any    *)
(* order with any segment while time passes.                               *)

SegTexts ==
    {<<>>, <<"[BLANK_AUDIO]", " ">>, <<" ", "hello">>, <<"world", ".">>,
     <<"[AUDIO OUT]", "ok", "?", " ">>}

\* <<start_time, end_time>> in ms: durations just below, at and above 1.0 s
SegTimes == {<<0, 999>>, <<0, 1000>>, <<1000, 2500>>}

Segments ==
    {[text |-> x, start_time |-> se[1], end_time |-> se[2]] : x \in SegTexts, se \in SegTimes}

\* The clock of SpecAcc moves in half sentence timeouts.
AccTickMs == SENTENCE_TIMEOUT_MS \div 2
MaxAccTicks == 4

\* Tokens held in current_sentence when add_segment is called
MaxSentenceLen == 4

\* The segment passes the tests of add_segment's lines 61 and 66
Accepted(acc, segment) ==
    /\ ~Rejected(CleanText(segment.text), segment)
    /\ ~IsDuplicate(acc, TupleHash(CleanText(segment.text), segment.start_time,
                                   segment.end_time))

\* The segments accepted since the last update, after add_segment's return
PendingAfter(pending, acc, segment, update) ==
    IF update.emitted THEN <<>>
    ELSE IF Accepted(acc, segment) THEN Append(pending, segment)
    ELSE pending

AccAddSegment(id, segment) ==
    LET buf == audio_buffers[id]
        r == add_segment(buf.accumulator, segment, buf.stream_type, now) IN
    /\ Len(buf.accumulator.current_sentence) <= MaxSentenceLen
    /\ audio_buffers' = [audio_buffers EXCEPT ![id].accumulator = r.acc]
    /\ last' = [NoLast EXCEPT !.op = "add_segment", !.id = id, !.segment = segment,
                              !.repeat = (last.op = "add_segment" /\ last.id = id
                                          /\ last.segment = segment),
                              !.pending = PendingAfter(last.pending, buf.accumulator,
                                                       segment, r.update),
                              !.update = r.update]
    /\ UNCHANGED <<wire, main, engine, now, threads>>

AccCheckTimeout(id) ==
    LET buf == audio_buffers[id]
        r == check_timeout(buf.accumulator, buf.stream_type, now) IN
    /\ audio_buffers' = [audio_buffers EXCEPT ![id].accumulator = r.acc]
    /\ last' = [NoLast EXCEPT !.op = "check_timeout", !.id = id, !.update = r.update,
                              !.pending = IF r.update.emitted THEN <<>> ELSE last.pending]
    /\ UNCHANGED <<wire, main, engine, now, threads>>

AccTick ==
    /\ now + AccTickMs <= MaxAccTicks * AccTickMs
    /\ now' = now + AccTickMs
    /\ UNCHANGED <<audio_buffers, threads, engine, wire, main, last>>

NextAcc ==
    \/ \E id \in DOMAIN audio_buffers, segment \in Segments : AccAddSegment(id, segment)
    \/ \E id \in DOMAIN audio_buffers : AccCheckTimeout(id)
    \/ AccTick

SpecAcc == InitCommon /\ [][NextAcc]_vars

\* C5: an update returned by add_segment or check_timeout never has an
\* empty text.
C5_NoEmptyText ==
    (last.op \in {"add_segment", "check_timeout"} /\ last.update.emitted)
        => last.update.text # <<>>

\* C5 witness: check_timeout returned an update, after add_segment calls.
C5_Witness ==
    /\ last.op = "check_timeout" /\ last.update.emitted
    /\ Len(audio_buffers[last.id].accumulator.segments_buffer) >= 2

\* C6: when add_segment is called twice in a row with the same segment, at
\* most one of the two calls returns an update, and the second call leaves
\* current_sentence, sentence_start_time, last_segment_hash and the history
\* as they were.
C6_SameSegmentTwice ==
    [][(Did("add_segment") /\ last'.repeat) =>
        LET acc == audio_buffers[last'.id].accumulator
            acc2 == audio_buffers'[last'.id].accumulator
        IN  /\ ~(last.update.emitted /\ last'.update.emitted)
            /\ acc2.current_sentence = acc.current_sentence
            /\ acc2.sentence_start_time = acc.sentence_start_time
            /\ acc2.last_segment_hash = acc.last_segment_hash
            /\ acc2.segments_buffer = acc.segments_buffer]_vars

\* C6 witness: the second of two calls with the same accepted segment, a
\* partial sentence being held.
C6_Witness ==
    /\ last.op = "add_segment" /\ last.repeat
    /\ ~Rejected(CleanText(last.segment.text), last.segment)
    /\ audio_buffers[last.id].accumulator.current_sentence # <<>>
    /\ audio_buffers[last.id].accumulator.segments_buffer # <<>>

\* C7: check_timeout returns no update and changes nothing while less than
\* the sentence timeout has passed since last_update_time, or while
\* current_sentence is empty.
C7_NoEarlyTimeout ==
    [][(/\ Did("check_timeout")
        /\ \/ now - audio_buffers[last'.id].accumulator.last_update_time < SENTENCE_TIMEOUT_MS
           \/ audio_buffers[last'.id].accumulator.current_sentence = <<>>)
       => /\ ~last'.update.emitted
          /\ audio_buffers' = audio_buffers]_vars

\* C7 witness: check_timeout returned nothing for a held partial sentence,
\* half a timeout after the last update.
C7_Witness ==
    /\ last.op = "check_timeout" /\ ~last.update.emitted
    /\ audio_buffers[last.id].accumulator.current_sentence # <<>>
    /\ now - audio_buffers[last.id].accumulator.last_update_time = AccTickMs

\* The cleaned texts of the segments, joined by single blanks
RECURSIVE JoinTexts(_)
JoinTexts(segs) ==
    IF segs = <<>> THEN <<>>
    ELSE IF Len(segs) = 1 THEN CleanText(segs[1].text)
    ELSE CleanText(segs[1].text) \o <<" ">> \o JoinTexts(Tail(segs))

\* C20: when add_segment accepts a segment whose cleaned text ends with
\* ".", "?" or "!", it returns one update whose text is the cleaned texts of
\* the segments accepted since the previous update joined by single blanks,
\* whose range runs from the start_time of the first of them to this
\* segment's end_time, and current_sentence is empty afterwards; an accepted
\* segment without such an ending returns no update and leaves a partial
\* sentence held.
C20_SentenceEmission ==
    [][(Did("add_segment")
        /\ ~Rejected(CleanText(last'.segment.text), last'.segment)
        /\ TupleHash(CleanText(last'.segment.text), last'.segment.start_time,
                     last'.segment.end_time)
             # audio_buffers[last'.id].accumulator.last_segment_hash)
       => LET clean == CleanText(last'.segment.text)
              all == Append(last.pending, last'.segment)
              acc2 == audio_buffers'[last'.id].accumulator
          IN  IF clean[Len(clean)] \in {".", "?", "!"}
              THEN /\ last'.update.emitted
                   /\ last'.update.text = JoinTexts(all)
                   /\ last'.update.timestamp
                        = <<Fmt1(all[1].start_time), Fmt1(last'.segment.end_time)>>
                   /\ acc2.current_sentence = <<>>
              ELSE /\ ~last'.update.emitted
                   /\ acc2.current_sentence = JoinTexts(all)
                   /\ acc2.current_sentence # <<>>]_vars

\* C20 witness: an update made of two accepted segments has been returned
C20_Witness ==
    /\ last.op = "add_segment" /\ last.update.emitted
    /\ Len(last.update.text) >= 4
    /\ last.update.timestamp[1] # Fmt1(last.segment.start_time)

\* C21: add_segment on a segment whose cleaned text is empty or whose
\* duration is below 1.0 s returns no update and changes nothing of the
\* accumulator but last_update_time, which becomes the time of the call; a
\* segment of exactly 1.0 s with a text, not a repeat, is taken into the
\* history.
C21_RejectedKeepsState ==
    [][Did("add_segment") =>
        LET seg == last'.segment
            clean == CleanText(seg.text)
            acc == audio_buffers[last'.id].accumulator
            acc2 == audio_buffers'[last'.id].accumulator
        IN  /\ (clean = <<>> \/ seg.end_time - seg.start_time < 1000)
                => /\ ~last'.update.emitted
                   /\ acc2 = [acc EXCEPT !.last_update_time = now]
            /\ (/\ clean # <<>>
                /\ seg.end_time - seg.start_time = 1000
                /\ TupleHash(clean, seg.start_time, seg.end_time) # acc.last_segment_hash)
                => /\ acc2.last_segment_hash = TupleHash(clean, seg.start_time, seg.end_time)
                   /\ acc2.segments_buffer # <<>>
                   /\ acc2.segments_buffer[Len(acc2.segments_buffer)] = seg]_vars

\* C21 witness: a segment with a text and a duration of 999 ms has been
\* dropped, some time after the last call, while a partial sentence was held
C21_Witness ==
    /\ last.op = "add_segment" /\ ~last.update.emitted
    /\ CleanText(last.segment.text) # <<>>
    /\ last.segment.end_time - last.segment.start_time = 999
    /\ audio_buffers[last.id].accumulator.current_sentence # <<>>
    /\ audio_buffers[last.id].accumulator.last_update_time = now
    /\ now >= 2 * AccTickMs

\* C22: check_timeout called on a held partial sentence more than the
\* sentence timeout after last_update_time returns an update with the
\* stripped sentence and the range from sentence_start_time to
\* sentence_start_time plus the timeout, and empties current_sentence; a
\* check_timeout that follows one that returned an update returns none.
C22_TimeoutEmitsOnce ==
    [][Did("check_timeout") =>
        LET acc == audio_buffers[last'.id].accumulator
            acc2 == audio_buffers'[last'.id].accumulator
        IN  /\ (acc.current_sentence # <<>>
                /\ now - acc.last_update_time > SENTENCE_TIMEOUT_MS)
                => /\ last'.update.emitted
                   /\ last'.update.text = Strip(acc.current_sentence)
                   /\ last'.update.timestamp
                        = <<Fmt1(acc.sentence_start_time),
                            Fmt1(acc.sentence_start_time + SENTENCE_TIMEOUT_MS)>>
                   /\ acc2 = [acc EXCEPT !.current_sentence = <<>>]
            /\ (last.op = "check_timeout" /\ last.id = last'.id /\ last.update.emitted)
                => ~last'.update.emitted]_vars

\* C22 witness: check_timeout has emitted a sentence of two segments that
\* started at 1.0 s
C22_Witness ==
    /\ last.op = "check_timeout" /\ last.update.emitted
    /\ Len(last.update.text) >= 3
    /\ last.update.timestamp = <<Fmt1(1000), Fmt1(1000 + SENTENCE_TIMEOUT_MS)>>
    /\ audio_buffers[last.id].accumulator.current_sentence = <<>>

\* C25: the history never holds more than its capacity; add_segment appends
\* to it exactly the segments it accepts, dropping the oldest entry when the
\* history is full, and check_timeout leaves it alone.
C25_HistoryBounded ==
    [][\A id \in DOMAIN audio_buffers \cap DOMAIN audio_buffers' :
        LET acc == audio_buffers[id].accumulator
            hist == acc.segments_buffer
            hist2 == audio_buffers'[id].accumulator.segments_buffer
            seg == last'.segment
            clean == CleanText(seg.text)
            taken == /\ Did("add_segment") /\ last'.id = id
                     /\ clean # <<>>
                     /\ seg.end_time - seg.start_time >= 1000
                     /\ TupleHash(clean, seg.start_time, seg.end_time) # acc.last_segment_hash
        IN  /\ Len(hist2) <= SegmentsMaxLen
            /\ hist2 = IF ~taken THEN hist
                        ELSE IF Len(hist) = SegmentsMaxLen THEN Append(Tail(hist), seg)
                        ELSE Append(hist, seg)]_vars

\* C25 witness: more segments than the history holds have been accepted in
\* one sentence, and the history is full
C25_Witness ==
    /\ last.op = "add_segment"
    /\ Len(last.pending) > SegmentsMaxLen
    /\ Len(audio_buffers[last.id].accumulator.segments_buffer) = SegmentsMaxLen

----------------------------------------------------------------------------
(* SpecDup: one TranscriptAccumulator and segments whose tuples the hash   *)
(* does and does not tell apart.  The builtin hash of a float is its value *)
(* reduced modulo 2^61 - 1, and the hash of a tuple is computed from the   *)
(* hashes of its items, so that (text, 0.0, 2.0) and (text, 0.0, 2.0**62)  *)
(* have one hash; in the model two end times HashMod apart do.             *)

\* Two valid segments, the first of them with another end time, of the same
\* hash, and a segment that line 61 drops
DupSegments ==
    LET a == [text |-> <<" ", "hello">>, start_time |-> 1000, end_time |-> 2500]
    IN  {a,
         [a EXCEPT !.end_time = a.end_time + HashMod],
         [text |-> <<"world", ".">>, start_time |-> 0, end_time |-> 1000],
         [text |-> <<"[BLANK_AUDIO]", " ">>, start_time |-> 0, end_time |-> 999]}

NextDup ==
    \/ \E id \in DOMAIN audio_buffers, segment \in DupSegments : AccAddSegment(id, segment)
    \/ \E id \in DOMAIN audio_buffers : AccCheckTimeout(id)
    \/ AccTick

SpecDup == InitCommon /\ [][NextDup]_vars

----------------------------------------------------------------------------
(* transcribe_chunk: the one-shot, file-based pipeline *)

\* analyze_audio_content's result: duration in ms, silence_percentage in
\* tenths of a percent, max_amplitude and rms_level in thousandths; the
\* values lie below, at and above the thresholds of transcribe_chunk
Analyses ==
    [error : {FALSE}, duration : {0, 49, 50, 5000}, silence : {100, 995, 996, 998},
     max_amplitude : {0, 499, 500, 900}, rms_level : {49, 50, 200}]
    \cup {[error |-> TRUE, duration |-> 0, silence |-> 1000, max_amplitude |-> 0,
           rms_level |-> 0]}

\* What the ASR engine does with one call: it raises, or returns nsegs segments
MaxSegs == 2
AsrOutcomes == [raises : BOOLEAN, nsegs : 0..MaxSegs]

\* transcribe_chunk, line 728
TooShort(a) == a.duration < 50

\* TooQuiet with the silence threshold itself refused
TooQuiet_at_threshold(a) == a.silence >= 995 \/ a.max_amplitude < 500 \/ a.rms_level < 50

\* transcribe_chunk, line 753
TooQuiet(a) == a.silence > 995 \/ a.max_amplitude < 500 \/ a.rms_level < 50

\* transcribe_chunk(audio_path, stream_type, conn) for a non-empty path: the
\* number of records it sends on conn itself (the live_text updates), the
\* shape of the result it returns, and the ASR invocations it makes
transcribe_chunk(file_exists, a, asr) ==
    IF ~file_exists THEN [live |-> 0, result |-> "type_error", asr_calls |-> 0]
    ELSE IF a.error \/ TooShort(a) \/ TooQuiet(a)
    THEN [live |-> 0, result |-> "empty_transcript", asr_calls |-> 0]
    ELSE IF asr.raises THEN [live |-> 0, result |-> "type_error", asr_calls |-> 1]
    ELSE [live |-> asr.nsegs, result |-> "transcript", asr_calls |-> 1]

----------------------------------------------------------------------------
(* SpecGate: transcribe_chunk called on any audio file *)

\* transcribe_chunk is called for a file, present or not, that
\* analyze_audio_content measures as a and the ASR engine treats as asr
GateTranscribeChunk(file_exists, a, asr) ==
    LET r == transcribe_chunk(file_exists, a, asr) IN
    /\ last' = [NoLast EXCEPT !.op = "transcribe_chunk", !.ok = file_exists, !.analysis = a,
                              !.gate = IF ~file_exists \/ a.error THEN "none"
                                       ELSE IF TooShort(a) \/ TooQuiet(a) THEN "rejected"
                                       ELSE "accepted",
                              !.reply = r.result, !.replies = r.live + 1,
                              !.asr_calls = r.asr_calls]
    /\ UNCHANGED <<wire, main, engine, now, audio_buffers, threads>>

NextGate ==
    \E file_exists \in BOOLEAN, a \in Analyses, asr \in AsrOutcomes :
        GateTranscribeChunk(file_exists, a, asr)

SpecGate == InitCommon /\ [][NextGate]_vars

\* The call ended at one of the gate's tests: an empty transcript, the ASR
\* engine not called
GateRejected == last.reply = "empty_transcript" /\ last.asr_calls = 0

\* C13: audio that was analyzed is rejected by the quality gate exactly when
\* its duration is below 50 ms, its silence percentage above 99.5, its
\* max_amplitude below 0.5 or its rms_level below 0.05; rejected audio gives
\* an empty transcript with no ASR call, accepted audio one ASR call.
C13_GateExact ==
    (last.op = "transcribe_chunk" /\ last.ok /\ ~last.analysis.error)
        => /\ GateRejected <=> \/ last.analysis.duration < 50
                               \/ last.analysis.silence > 995
                               \/ last.analysis.max_amplitude < 500
                               \/ last.analysis.rms_level < 50
           /\ ~GateRejected => last.asr_calls = 1

\* C13 witness: 5.0 s of audio, loud enough, 99.8% silent, has been rejected
C13_Witness ==
    /\ last.op = "transcribe_chunk" /\ last.ok /\ ~last.analysis.error
    /\ last.analysis.duration = 5000 /\ last.analysis.silence = 998
    /\ last.analysis.max_amplitude = 900 /\ last.analysis.rms_level = 200
    /\ GateRejected

----------------------------------------------------------------------------
(* The connection threads and the registry.  Each connection is served by  *)
(* its own thread and the registry has no lock, so a registry operation is *)
(* a sequence of steps, one per access to audio_buffers or active_streams, *)
(* and the steps of different threads interleave.  The sections run under  *)
(* a buffer's lock are single steps.                                       *)

\* The stream_type values the clients of the repository put in a
\* start_stream record
RequestStreamTypes == {"microphone", "system"}

\* The decoded audio_data of a stream_chunk record, in bytes: min_samples
\* samples, and a size np.frombuffer refuses
SrvPayloadBytes == {4 * min_samples, 6}

SrvMaxSamples == min_samples

Init ==
    /\ InitEngine
    /\ now = 0
    /\ audio_buffers = <<>>
    /\ active_streams = {}
    /\ conn = [c \in Conns |-> NoConn]
    /\ client_streams = [c \in Conns |-> {}]
    /\ started_by = [id \in StreamIds |-> 0]
    /\ last = NoLast

Registered(id) == id \in DOMAIN audio_buffers

\* self.audio_buffers[stream_id] = buffer
MapPut(m, id, buffer) == [x \in DOMAIN m \cup {id} |-> IF x = id THEN buffer ELSE m[x]]

\* MapDel as dict.clear()
MapDel_all(m, id) == <<>>

\* del self.audio_buffers[stream_id]
MapDel(m, id) == [x \in DOMAIN m \ {id} |-> m[x]]

AtRecv == [NoConn EXCEPT !.pc = "recv"]

\* The handling of a request record of connection c ends, replies records sent
Reply(c, kind, id, ok, replies, reply) ==
    [NoLast EXCEPT !.op = "reply", !.conn = c, !.kind = kind, !.id = id, !.ok = ok,
                   !.replies = replies, !.reply = reply]

\* The same, at the return of a registry operation called for the request
Returned(c, kind, id, ok, replies, reply) ==
    [Reply(c, kind, id, ok, replies, reply) EXCEPT
        !.call = IF kind = "stream_chunk" THEN "add_audio_chunk" ELSE kind]

\* A stop_stream called by the cleanup loop returned or raised
Cleaned(c, id, ok, reply) ==
    [NoLast EXCEPT !.op = "cleanup", !.conn = c, !.id = id, !.ok = ok, !.reply = reply,
                   !.call = "stop_stream"]

\* A step of connection c that leaves a registry operation in progress
Step(c) == [NoLast EXCEPT !.op = "step", !.conn = c]

\* handle_client, lines 1112-1116: an exception or the end of the input
\* leaves the while loop for the finally block
EnterCleanup(c) ==
    [NoConn EXCEPT !.pc = "cleanup", !.mode = "cleanup", !.todo = client_streams[c]]

\* started_by once id has left the map and the active set
Forget(sb, id, m, act) == IF id \notin DOMAIN m /\ id \notin act THEN [sb EXCEPT ![id] = 0] ELSE sb

\* run, lines 468-476: a connection is accepted and its thread started
Accept(c) ==
    /\ conn[c].pc = "new"
    /\ conn' = [conn EXCEPT ![c] = AtRecv]
    /\ last' = [NoLast EXCEPT !.op = "accept", !.conn = c]
    /\ UNCHANGED <<wire, main, engine, now, audio_buffers, active_streams, client_streams, started_by>>

\* RecvStartStream without the membership test of line 190
RecvStartStream_overwrite(c, id) ==
    /\ conn[c].pc = "recv"
    /\ conn' = [conn EXCEPT ![c] = [AtRecv EXCEPT !.pc = "start_insert", !.id = id]]
    /\ last' = Step(c)
    /\ UNCHANGED <<wire, main, engine, now, audio_buffers, active_streams, client_streams, started_by>>

\* handle_client, lines 1005-1016, to start_stream's line 191
RecvStartStream(c, id) ==
    /\ conn[c].pc = "recv"
    /\ IF Registered(id)
       THEN /\ client_streams' = [client_streams EXCEPT ![c] = @ \cup {id}]
            /\ last' = Returned(c, "start_stream", id, FALSE, 1, "success_false")
            /\ UNCHANGED conn
       ELSE /\ conn' = [conn EXCEPT ![c] = [AtRecv EXCEPT !.pc = "start_insert", !.id = id]]
            /\ last' = Step(c)
            /\ UNCHANGED client_streams
    /\ UNCHANGED <<wire, main, engine, now, audio_buffers, active_streams, started_by>>

\* start_stream, line 194, for a record with this stream_type
StartInsert(c, stream_type) ==
    /\ conn[c].pc = "start_insert"
    /\ audio_buffers' = MapPut(audio_buffers, conn[c].id, NewBuffer(stream_type, now))
    /\ started_by' = [started_by EXCEPT ![conn[c].id] = c]
    /\ conn' = [conn EXCEPT ![c].pc = "start_add"]
    /\ last' = Step(c)
    /\ UNCHANGED <<wire, main, engine, now, active_streams, client_streams>>

\* start_stream, lines 195-198, and handle_client, lines 1011-1014
StartAdd(c) ==
    /\ conn[c].pc = "start_add"
    /\ active_streams' = active_streams \cup {conn[c].id}
    /\ client_streams' = [client_streams EXCEPT ![c] = @ \cup {conn[c].id}]
    /\ conn' = [conn EXCEPT ![c] = AtRecv]
    /\ started_by' = [started_by EXCEPT ![conn[c].id] = c]
    /\ last' = Returned(c, "start_stream", conn[c].id, TRUE, 1, "success")
    /\ UNCHANGED <<wire, main, engine, now, audio_buffers>>

\* handle_client, lines 1018-1029, to stop_stream's line 202; id "" is a
\* record without stream_id
RecvStopStream(c, id) ==
    /\ conn[c].pc = "recv"
    /\ IF id = ""
       THEN /\ last' = Reply(c, "stop_stream", id, FALSE, 0, "none")
            /\ UNCHANGED <<conn, client_streams>>
       ELSE IF ~Registered(id)
       THEN /\ client_streams' = [client_streams EXCEPT ![c] = @ \ {id}]
            /\ last' = Returned(c, "stop_stream", id, FALSE, 1, "success_false")
            /\ UNCHANGED conn
       ELSE /\ conn' = [conn EXCEPT ![c] = [AtRecv EXCEPT !.pc = "stop_lookup", !.id = id]]
            /\ last' = Step(c)
            /\ UNCHANGED client_streams
    /\ UNCHANGED <<wire, main, engine, now, audio_buffers, active_streams, started_by>>

\* A KeyError in stop_stream: the cleanup loop swallows it (lines 1120-1121),
\* in the handling of a request it leaves the while loop (line 1112)
StopRaises(c) ==
    IF conn[c].mode = "cleanup"
    THEN /\ conn' = [conn EXCEPT ![c] = [NoConn EXCEPT !.pc = "cleanup", !.mode = "cleanup",
                                                        !.todo = conn[c].todo]]
         /\ last' = Cleaned(c, conn[c].id, FALSE, "KeyError")
    ELSE /\ conn' = [conn EXCEPT ![c] = EnterCleanup(c)]
         /\ last' = [Returned(c, "stop_stream", conn[c].id, FALSE, 0, "KeyError")
                        EXCEPT !.open = FALSE]

\* stop_stream, lines 206-211: the lookup, and the section under the
\* buffer's lock, which copies the buffer into remaining_chunk, prints its
\* length, and calls neither get_chunk_if_ready nor transcribe_audio_chunk
StopLookup(c) ==
    /\ conn[c].pc = "stop_lookup"
    /\ IF Registered(conn[c].id)
       THEN /\ buffer_lock[conn[c].id] = "free"
            /\ conn' = [conn EXCEPT ![c].pc = "stop_del"]
            /\ last' = Step(c)
       ELSE StopRaises(c)
    /\ UNCHANGED <<wire, main, engine, now, audio_buffers, active_streams, client_streams, started_by>>

\* stop_stream, line 213
StopDel(c) ==
    /\ conn[c].pc = "stop_del"
    /\ IF Registered(conn[c].id)
       THEN /\ audio_buffers' = MapDel(audio_buffers, conn[c].id)
            /\ loop' = Detach(loop, conn[c].id, audio_buffers[conn[c].id])
            /\ started_by' = Forget(started_by, conn[c].id, audio_buffers', active_streams)
            /\ conn' = [conn EXCEPT ![c].pc = "stop_discard"]
            /\ last' = Step(c)
       ELSE /\ StopRaises(c)
            /\ UNCHANGED <<audio_buffers, started_by, loop>>
    /\ UNCHANGED <<wire, main, buffer_lock, sink, now, active_streams, client_streams>>

\* stop_stream, lines 214-217, and handle_client, lines 1024-1027
StopDiscard(c) ==
    /\ conn[c].pc = "stop_discard"
    /\ active_streams' = active_streams \ {conn[c].id}
    /\ started_by' = Forget(started_by, conn[c].id, audio_buffers, active_streams')
    /\ IF conn[c].mode = "cleanup"
       THEN /\ conn' = [conn EXCEPT ![c] = [NoConn EXCEPT !.pc = "cleanup", !.mode = "cleanup",
                                                           !.todo = conn[c].todo]]
            /\ last' = Cleaned(c, conn[c].id, TRUE, "success")
            /\ UNCHANGED client_streams
       ELSE /\ client_streams' = [client_streams EXCEPT ![c] = @ \ {conn[c].id}]
            /\ conn' = [conn EXCEPT ![c] = AtRecv]
            /\ last' = Returned(c, "stop_stream", conn[c].id, TRUE, 1, "success")
    /\ UNCHANGED <<wire, main, engine, now, audio_buffers>>

\* handle_client, lines 1031-1048, to add_audio_chunk's line 221; id "" is
\* a record without stream_id, and audio_data is missing or empty, is not
\* base64, or decodes to bytes
RecvStreamChunk(c, id, audio_data) ==
    /\ conn[c].pc = "recv"
    /\ IF id = "" \/ audio_data = "missing"
       THEN /\ last' = Reply(c, "stream_chunk", id, FALSE, 0, "none")
            /\ UNCHANGED conn
       ELSE IF audio_data = "bad_base64"
       THEN /\ last' = Reply(c, "stream_chunk", id, FALSE, 1, "success_false")
            /\ UNCHANGED conn
       ELSE IF ~Registered(id)
       THEN /\ last' = Returned(c, "stream_chunk", id, FALSE, 1, "success_false")
            /\ UNCHANGED conn
       ELSE /\ conn' = [conn EXCEPT ![c] = [AtRecv EXCEPT !.pc = "add_data", !.id = id]]
            /\ last' = Step(c)
    /\ UNCHANGED <<wire, main, engine, now, audio_buffers, active_streams, client_streams, started_by>>

\* add_audio_chunk, lines 224-225, and handle_client, lines 1043-1047, for
\* audio_data of nbytes bytes: a KeyError of the lookup and a ValueError of
\* np.frombuffer are caught and answered
AddAudioData(c, nbytes) ==
    /\ conn[c].pc = "add_data"
    /\ (Registered(conn[c].id) /\ FromBuffer(nbytes) >= 0)
         => audio_buffers[conn[c].id].total_samples + FromBuffer(nbytes) <= SrvMaxSamples
    /\ IF Registered(conn[c].id) /\ FromBuffer(nbytes) >= 0
       THEN /\ audio_buffers' = [audio_buffers EXCEPT
                                   ![conn[c].id] = add_audio_data(@, FromBuffer(nbytes))]
            /\ last' = [Returned(c, "stream_chunk", conn[c].id, TRUE, 1, "success")
                           EXCEPT !.samples = FromBuffer(nbytes)]
       ELSE /\ last' = Returned(c, "stream_chunk", conn[c].id, FALSE, 1, "success_false")
            /\ UNCHANGED audio_buffers
    /\ conn' = [conn EXCEPT ![c] = AtRecv]
    /\ UNCHANGED <<wire, main, engine, now, active_streams, client_streams, started_by>>

\* The results of transcribe_chunk
TranscribeResults ==
    {transcribe_chunk(file_exists, a, asr) :
        file_exists \in BOOLEAN, a \in Analyses, asr \in AsrOutcomes}

\* RecvDualStreamChunk with the result accumulated in a buffer of the
\* registry, made for the request when there is none
RecvDualStreamChunk_via_registry(c, path_empty, r) ==
    /\ conn[c].pc = "recv"
    /\ last' = Reply(c, "dual_stream_chunk", "", r.result # "type_error", r.live + 1, r.result)
    /\ audio_buffers' = MapPut(audio_buffers, "s1", NewBuffer("microphone", now))
    /\ UNCHANGED <<wire, main, engine, now, threads>>

\* handle_client, lines 1050-1084, for a record with an empty audio_path or
\* one whose transcribe_chunk does r
RecvDualStreamChunk(c, path_empty, r) ==
    /\ conn[c].pc = "recv"
    /\ IF path_empty
       THEN last' = Reply(c, "dual_stream_chunk", "", FALSE, 0, "none")
       ELSE last' = [Reply(c, "dual_stream_chunk", "", r.result # "type_error",
                           r.live + 1, r.result)
                       EXCEPT !.asr_calls = r.asr_calls]
    /\ UNCHANGED <<wire, main, engine, now, audio_buffers, threads>>

\* handle_client, lines 995-1003
RecvCheckAlerts(c) ==
    /\ conn[c].pc = "recv"
    /\ last' = Reply(c, "check_alerts", "", TRUE, 1, "success")
    /\ UNCHANGED <<wire, main, engine, now, audio_buffers, threads>>

\* handle_client, lines 993-1085: a JSON object whose type is none of the
\* five kinds matches no branch, and the loop goes on to the next recv
RecvUnknownKind(c) ==
    /\ conn[c].pc = "recv"
    /\ last' = Reply(c, "unknown", "", FALSE, 0, "none")
    /\ UNCHANGED <<wire, main, engine, now, audio_buffers, threads>>

\* handle_client, lines 993-995 and 1112-1116: JSON that is not an object has
\* no get; the AttributeError is not a JSONDecodeError and ends the loop
RecvNonObject(c) ==
    /\ conn[c].pc = "recv"
    /\ conn' = [conn EXCEPT ![c] = EnterCleanup(c)]
    /\ last' = [Reply(c, "non_object", "", FALSE, 0, "AttributeError") EXCEPT !.open = FALSE]
    /\ UNCHANGED <<wire, main, engine, now, audio_buffers, active_streams, client_streams, started_by>>

\* handle_client, lines 1086-1110: data that is not JSON is taken as the
\* path of an audio file; blank data gives an empty path
RecvMalformed(c, blank, r) ==
    /\ conn[c].pc = "recv"
    /\ IF blank
       THEN last' = Reply(c, "malformed", "", FALSE, 0, "none")
       ELSE last' = [Reply(c, "malformed", "", r.result # "type_error", r.live + 1, r.result)
                       EXCEPT !.asr_calls = r.asr_calls]
    /\ UNCHANGED <<wire, main, engine, now, audio_buffers, threads>>

\* handle_client, lines 987-989: recv returns no data, or raises
Disconnect(c) ==
    /\ conn[c].pc = "recv"
    /\ conn' = [conn EXCEPT ![c] = EnterCleanup(c)]
    /\ last' = [NoLast EXCEPT !.op = "disconnect", !.conn = c]
    /\ UNCHANGED <<wire, main, engine, now, audio_buffers, active_streams, client_streams, started_by>>

\* handle_client, lines 1116-1123: the next stream of the cleanup loop, to
\* stop_stream's line 202, or conn.close() after the last one
CleanupNext(c) ==
    /\ conn[c].pc = "cleanup"
    /\ IF conn[c].todo = {}
       THEN /\ conn' = [conn EXCEPT ![c] = [NoConn EXCEPT !.pc = "closed"]]
            /\ last' = [NoLast EXCEPT !.op = "closed", !.conn = c]
       ELSE \E id \in conn[c].todo :
            IF Registered(id)
            THEN /\ conn' = [conn EXCEPT ![c].pc = "stop_lookup", ![c].id = id,
                                         ![c].todo = @ \ {id}]
                 /\ last' = Step(c)
            ELSE /\ conn' = [conn EXCEPT ![c].todo = @ \ {id}]
                 /\ last' = Cleaned(c, id, FALSE, "success_false")
    /\ UNCHANGED <<wire, main, engine, now, audio_buffers, active_streams, client_streams, started_by>>

\* The steps of connection c that serve the stream requests
StreamSteps(c) ==
    \/ Accept(c)
    \/ \E id \in StreamIds : RecvStartStream(c, id)
    \/ \E stream_type \in RequestStreamTypes : StartInsert(c, stream_type)
    \/ StartAdd(c)
    \/ \E id \in StreamIds \cup {""} : RecvStopStream(c, id)
    \/ StopLookup(c)
    \/ StopDel(c)
    \/ StopDiscard(c)
    \/ \E id \in StreamIds \cup {""}, audio_data \in {"missing", "bad_base64", "bytes"} :
            RecvStreamChunk(c, id, audio_data)
    \/ \E nbytes \in SrvPayloadBytes : AddAudioData(c, nbytes)
    \/ RecvNonObject(c)
    \/ Disconnect(c)
    \/ CleanupNext(c)

\* The requests that touch no stream
OtherRequests(c) ==
    \/ \E path_empty \in BOOLEAN, r \in TranscribeResults : RecvDualStreamChunk(c, path_empty, r)
    \/ RecvCheckAlerts(c)
    \/ RecvUnknownKind(c)
    \/ \E blank \in BOOLEAN, r \in TranscribeResults : RecvMalformed(c, blank, r)

----------------------------------------------------------------------------
(* Spec: the connection threads, their stream requests interleaved *)

Next == \E c \in Conns : StreamSteps(c)

Spec == Init /\ [][Next]_vars

----------------------------------------------------------------------------
(* SpecConn: one connection and every kind of record *)

NextConn == StreamSteps(1) \/ OtherRequests(1)

SpecConn == Init /\ [][NextConn]_vars

----------------------------------------------------------------------------
(* Claims about the registry and the protocol *)

StreamKinds == {"start_stream", "stop_stream", "stream_chunk"}

\* C3: when stop_stream removes the entry of a stream whose buffer still
\* holds samples, the call has made an ASR pass over them: no buffered audio
\* leaves the registry without having been submitted to the ASR engine.
C3_FinalDrain ==
    [][\A id \in DOMAIN audio_buffers :
          (id \notin DOMAIN audio_buffers' /\ Len(audio_buffers[id].audio_buffer) > 0)
              => last'.asr_calls >= 1]_vars

\* C4: start_stream on a registered id, and stop_stream and add_audio_chunk
\* on an id that is not registered, fail: the call returns at its membership
\* test with a failure; and every failing call of the three leaves the
\* registry map, with every buffer in it, and the active set as they were.
C4_FailingCallsNoEffect ==
    [][\A c \in Conns :
          /\ (conn[c].pc \in {"recv", "cleanup"} /\ conn'[c].pc = "start_insert")
                => conn'[c].id \notin DOMAIN audio_buffers
          /\ (conn[c].pc \in {"recv", "cleanup"} /\ conn'[c].pc \in {"stop_lookup", "add_data"})
                => conn'[c].id \in DOMAIN audio_buffers
          /\ (conn[c].pc \in {"recv", "cleanup"} /\ last'.conn = c /\ last'.call # ""
                /\ (last'.id \in DOMAIN audio_buffers <=> last'.call = "start_stream"))
                => ~last'.ok
          /\ (last'.conn = c /\ last'.call # "" /\ ~last'.ok)
                => (audio_buffers' = audio_buffers /\ active_streams' = active_streams)]_vars

\* A duplicate start_stream has just failed on a stream that holds audio
C4_Witness ==
    /\ last.call = "start_stream" /\ ~last.ok
    /\ last.id \in DOMAIN audio_buffers
    /\ audio_buffers[last.id].total_samples > 0
    /\ last.id \in active_streams

\* C8: every request record of the five kinds gets exactly one reply record
C8_OneReplyPerRequest ==
    [][(Did("reply") /\ last'.kind \in StreamKinds \cup {"dual_stream_chunk", "check_alerts"})
          => last'.replies = 1]_vars

\* C9: a record that is malformed JSON, JSON but not an object, or of an
\* unrecognized kind is answered with one success-false reply and the
\* connection stays open
C9_ProtocolErrorReply ==
    [][(Did("reply") /\ last'.kind \in {"malformed", "non_object", "unknown"})
          => /\ last'.replies = 1
             /\ last'.reply = "success_false"
             /\ last'.open
             /\ conn'[last'.conn].pc = "recv"]_vars

\* No registry operation is in progress on connection c
Idle(c) == conn[c].pc \in {"new", "recv", "closed"}

\* C10: once the handler of a connection has finished, no stream started by
\* that connection remains in the buffer map or the active set (looked at
\* when no operation of another connection is under way, so that a removal
\* another thread is in the middle of does not count as a stream remaining)
C10_NoOrphanAfterClose ==
    \A c \in Conns :
        (conn[c].pc = "closed" /\ \A d \in Conns : Idle(d))
            => \A id \in DOMAIN audio_buffers \cup active_streams : started_by[id] # c

\* C11: the cleanup of a disconnecting connection removes only streams that
\* this connection itself started: a stream started by another connection
\* stays registered (looked at while no other connection is in the middle of
\* a registry operation).
C11_CleanupOnlyOwnStreams ==
    [][\A c \in Conns :
          (/\ conn[c].mode = "cleanup" /\ conn[c].pc = "stop_del"
           /\ conn'[c].pc = "stop_discard"
           /\ \A d \in Conns \ {c} : Idle(d)
           /\ conn[c].id \in DOMAIN audio_buffers
           /\ conn[c].id \notin DOMAIN audio_buffers')
              => started_by[conn[c].id] = c]_vars

\* C15: start_stream calls are serialized: the insertion made by a
\* start_stream call never replaces the buffer of a registered stream, so of
\* two calls for the same id only one registers a buffer.
C15_StartNeverReplaces ==
    [][\A c \in Conns :
          (conn[c].pc = "start_insert" /\ conn'[c].pc = "start_add")
              => conn[c].id \notin DOMAIN audio_buffers]_vars

\* C28: the handling of a dual_stream_chunk or check_alerts record leaves
\* the buffer map with every buffer and accumulator in it, the active set,
\* and the streams tracked for each connection as they were.
C28_OneShotOutsideRegistry ==
    [][(Did("reply") /\ last'.kind \in {"dual_stream_chunk", "check_alerts"})
          => /\ audio_buffers' = audio_buffers
             /\ active_streams' = active_streams
             /\ client_streams' = client_streams]_vars

\* C28 witness: a dual_stream_chunk record has been answered with a
\* transcript on a connection that tracks a stream with audio in its buffer
C28_Witness ==
    /\ last.op = "reply" /\ last.kind = "dual_stream_chunk" /\ last.reply = "transcript"
    /\ client_streams[last.conn] # {}
    /\ \E id \in client_streams[last.conn] \cap DOMAIN audio_buffers :
          audio_buffers[id].total_samples > 0

\* C30: while no connection is inside start_stream or stop_stream, the
\* active set is the set of keys of the buffer map.
C30_ActiveIsKeySet ==
    (\A c \in Conns : Idle(c)) => active_streams = DOMAIN audio_buffers

\* C34: a stop_stream called for a request, whatever another connection
\* that stops the same stream does meanwhile, ends with one reply, success
\* or the error reply for a stream not found, and the connection is served
\* on; while one connection is inside stop_stream for a stream, the call of
\* another connection for that stream does not return success as well.
C34_ConcurrentStop ==
    [][(Did("reply") /\ last'.kind = "stop_stream" /\ last'.call = "stop_stream")
          => /\ last'.replies = 1
             /\ last'.reply \in {"success", "success_false"}
             /\ last'.open
             /\ conn'[last'.conn].pc = "recv"
             /\ last'.ok =>
                   \A d \in Conns \ {last'.conn} :
                       (conn'[d].id = last'.id /\ conn'[d].mode = "request"
                        /\ conn'[d].pc \in {"stop_lookup", "stop_del"})
                          => last'.id \notin DOMAIN audio_buffers']_vars

\* C36: a step of a connection inside start_stream, add_audio_chunk or
\* stop_stream for stream id leaves every other stream as it was, in
\* audio_buffers and in active_streams, and a successful add_audio_chunk
\* appends the samples of its payload to the buffer of id and changes
\* nothing else of it, neither the accumulator nor last_chunk_time.
C36_OtherStreamsUntouched ==
    [][\A c \in Conns :
        (last'.conn = c /\ <<audio_buffers, active_streams>>' # <<audio_buffers, active_streams>>)
          => LET id == conn[c].id IN
             /\ id \in StreamIds
             /\ \A other \in StreamIds \ {id} :
                   /\ Registered(other) <=> other \in DOMAIN audio_buffers'
                   /\ Registered(other) => audio_buffers'[other] = audio_buffers[other]
                   /\ other \in active_streams <=> other \in active_streams'
             /\ (last'.call = "add_audio_chunk" /\ last'.ok)
                   => /\ Registered(id) /\ id \in DOMAIN audio_buffers'
                      /\ active_streams' = active_streams
                      /\ audio_buffers'[id] =
                            [audio_buffers[id] EXCEPT
                               !.audio_buffer = audio_buffers'[id].audio_buffer,
                               !.total_samples = @ + last'.samples]
                      /\ Len(audio_buffers'[id].audio_buffer)
                            = Len(audio_buffers[id].audio_buffer) + last'.samples]_vars

\* C36 witness: an add_audio_chunk for one stream has returned success
\* while another stream holds audio and the other connection is in the
\* middle of a stop_stream for that other stream.
C36_Witness ==
    /\ last.call = "add_audio_chunk" /\ last.ok /\ last.samples > 0
    /\ audio_buffers[last.id].total_samples = last.samples
    /\ \E other \in StreamIds \ {last.id}, d \in Conns \ {last.conn} :
          /\ conn[d].id = other /\ conn[d].pc = "stop_del"
          /\ Registered(other)
          /\ audio_buffers[other].total_samples > 0

----------------------------------------------------------------------------
(* SpecLoop: the processing loop over two registered streams, a connection *)
(* thread that feeds them, and the passing of time.  The sections under a  *)
(* buffer's lock are entered and left in separate steps.                   *)

\* The clock of SpecLoop moves in chunk durations.
LoopTickMs == CHUNK_DURATION_MS
MaxLoopTicks == 2

\* Samples appended to one buffer
LoopMaxSamples == 2 * min_samples

\* The decoded audio_data of the stream_chunk records, in bytes
FeedBytes == 4 * min_samples

\* The segments the ASR engine yields for a chunk
Seg1 == [text |-> <<"ok", "?">>, start_time |-> 0, end_time |-> 1000]
Seg2 == [text |-> <<"hello">>, start_time |-> 1000, end_time |-> 2500]
LoopSegLists == {<<>>, <<Seg2>>, <<Seg1, Seg2>>}

\* What one call of model.transcribe does: it stalls for ever, or it yields
\* segments and then returns or raises
LoopAsrOutcomes == [raises : BOOLEAN, segments : LoopSegLists]

\* Two streams started by connection 1, which is at its recv
InitLoop ==
    /\ InitEngine
    /\ now = 0
    /\ audio_buffers = [id \in StreamIds |->
                           NewBuffer(IF id = "s1" THEN "microphone" ELSE "system", 0)]
    /\ active_streams = StreamIds
    /\ conn = [c \in Conns |-> IF c = 1 THEN AtRecv ELSE NoConn]
    /\ client_streams = [c \in Conns |-> IF c = 1 THEN StreamIds ELSE {}]
    /\ started_by = [id \in StreamIds |-> 1]
    /\ last = NoLast

\* A step of the loop thread
LoopDid(op, id) == [NoLast EXCEPT !.op = op, !.id = id, !.kind = "loop"]

\* LockFree with nothing to wait for
LockFree_always(id) == TRUE

\* with self.buffer_lock: the lock can be taken
LockFree(id) == buffer_lock[id] = "free"

\* add_audio_chunk, lines 224-225, to the with statement of add_audio_data
AddAcquire(c) ==
    /\ conn[c].pc = "add_data"
    /\ Registered(conn[c].id)
    /\ LockFree(conn[c].id)
    /\ buffer_lock' = [buffer_lock EXCEPT ![conn[c].id] = "conn"]
    /\ conn' = [conn EXCEPT ![c].pc = "add_locked"]
    /\ last' = Step(c)
    /\ UNCHANGED <<wire, main, now, audio_buffers, active_streams, client_streams, started_by, loop, sink>>

\* add_audio_data, lines 136-142, for nbytes bytes of samples, and
\* handle_client, lines 1043-1044
AddLocked(c, nbytes) ==
    /\ conn[c].pc = "add_locked"
    /\ FromBuffer(nbytes) >= 0
    /\ audio_buffers' = [audio_buffers EXCEPT
                            ![conn[c].id] = add_audio_data(@, FromBuffer(nbytes))]
    /\ buffer_lock' = [buffer_lock EXCEPT ![conn[c].id] = "free"]
    /\ conn' = [conn EXCEPT ![c] = AtRecv]
    /\ last' = [Returned(c, "stream_chunk", conn[c].id, TRUE, 1, "success")
                   EXCEPT !.samples = FromBuffer(nbytes)]
    /\ UNCHANGED <<wire, main, now, active_streams, client_streams, started_by, loop, sink>>

\* process_streams, lines 353-354: the while test and the snapshot
LoopSnapshot ==
    /\ loop.pc = "while"
    /\ main.running
    /\ loop' = [NoLoop EXCEPT !.pc = "for", !.todo = active_streams]
    /\ last' = LoopDid("snapshot", "")
    /\ UNCHANGED <<wire, main, now, audio_buffers, threads, buffer_lock, sink>>

\* process_streams, lines 354-355 and 379: the next stream_id and its
\* membership test, or the sleep after the last one
LoopNextStream ==
    /\ loop.pc = "for"
    /\ IF loop.todo = {}
       THEN /\ loop' = NoLoop
            /\ last' = LoopDid("sleep", "")
       ELSE \E id \in loop.todo :
            /\ loop' = [NoLoop EXCEPT !.pc = IF Registered(id) THEN "lookup" ELSE "for",
                                      !.todo = loop.todo \ {id},
                                      !.id = IF Registered(id) THEN id ELSE ""]
            /\ last' = LoopDid("next_stream", id)
    /\ UNCHANGED <<wire, main, now, audio_buffers, threads, buffer_lock, sink>>

\* process_streams, lines 356-357, to the with statement of
\* get_chunk_if_ready; the lookup of line 356 is outside the try statement
\* of line 361, so its KeyError ends process_streams and the thread with it
LoopLookup ==
    /\ loop.pc = "lookup"
    /\ IF Registered(loop.id)
       THEN /\ LockFree(loop.id)
            /\ buffer_lock' = [buffer_lock EXCEPT ![loop.id] = "loop"]
            /\ loop' = [loop EXCEPT !.pc = "get_locked"]
            /\ last' = LoopDid("lookup", loop.id)
       ELSE /\ loop' = [NoLoop EXCEPT !.pc = "dead"]
            /\ last' = [LoopDid("lookup", loop.id) EXCEPT !.ok = FALSE, !.reply = "KeyError"]
            /\ UNCHANGED buffer_lock
    /\ UNCHANGED <<wire, main, now, audio_buffers, threads, sink>>

\* The object the local buffer of process_streams refers to
LoopBuffer == IF loop.detached # <<>> THEN loop.detached[1] ELSE audio_buffers[loop.id]

\* audio_buffers once the loop's call has left its buffer as obj
BuffersAfter(obj) ==
    IF loop.detached # <<>> THEN audio_buffers ELSE [audio_buffers EXCEPT ![loop.id] = obj]

\* The detached object, if there is one, once the loop's call has left it as obj
DetachedAfter(obj) == IF loop.detached # <<>> THEN <<obj>> ELSE <<>>

\* get_chunk_if_ready, lines 146-172, and process_streams, line 359
LoopGetChunk ==
    LET r == get_chunk_if_ready(LoopBuffer, now) IN
    /\ loop.pc = "get_locked"
    /\ loop.detached # <<>> \/ Registered(loop.id)
    /\ audio_buffers' = BuffersAfter(r.buf)
    /\ buffer_lock' = [buffer_lock EXCEPT ![loop.id] = "free"]
    /\ loop' = IF r.ready THEN [loop EXCEPT !.pc = "transcribe", !.chunk = r.chunk,
                                            !.detached = DetachedAfter(r.buf)]
               ELSE [loop EXCEPT !.pc = "for", !.id = "", !.detached = <<>>]
    /\ last' = [LoopDid("get_chunk_if_ready", loop.id) EXCEPT
                   !.ready = r.ready, !.chunk = r.chunk, !.overlap = r.overlap]
    /\ UNCHANGED <<wire, main, now, threads, sink>>

\* process_streams, line 362, and transcribe_audio_chunk, lines 387-428:
\* the chunk is written to a file and model.transcribe is called on it
LoopAsrInvoke(stalled) ==
    /\ loop.pc = "transcribe"
    /\ loop' = [loop EXCEPT !.pc = "asr", !.stalled = stalled]
    /\ last' = [LoopDid("asr_invoke", loop.id) EXCEPT !.asr_calls = 1, !.chunk = loop.chunk]
    /\ UNCHANGED <<wire, main, now, audio_buffers, threads, buffer_lock, sink>>

\* AsrSegments with what the engine had yielded before it raised
AsrSegments_despite_raise(outcome) == outcome.segments

\* transcribe_audio_chunk, lines 430-452: the segments it returns
AsrSegments(outcome) == IF outcome.raises THEN <<>> ELSE outcome.segments

\* transcribe_audio_chunk returns
LoopAsrReturn(outcome) ==
    /\ loop.pc = "asr"
    /\ ~loop.stalled
    /\ loop' = [loop EXCEPT !.pc = "segments", !.segments = AsrSegments(outcome),
                            !.chunk = <<>>]
    /\ last' = [LoopDid("transcribe_audio_chunk", loop.id) EXCEPT !.ok = ~outcome.raises]
    /\ UNCHANGED <<wire, main, now, audio_buffers, threads, buffer_lock, sink>>

\* The accumulator of stream id returned update to the loop
Produced(id, update) ==
    IF update.emitted THEN [sink EXCEPT !.produced[id] = Append(@, update)] ELSE sink

\* process_streams, lines 365-367: the next segment goes to add_segment
LoopAddSegment ==
    LET buf == LoopBuffer
        r == add_segment(buf.accumulator, Head(loop.segments), buf.stream_type, now)
        after == [buf EXCEPT !.accumulator = r.acc] IN
    /\ loop.pc = "segments"
    /\ loop.detached # <<>> \/ Registered(loop.id)
    /\ loop.segments # <<>>
    /\ audio_buffers' = BuffersAfter(after)
    /\ sink' = Produced(loop.id, r.update)
    /\ loop' = [loop EXCEPT !.segments = Tail(loop.segments), !.update = r.update,
                            !.pc = IF r.update.emitted THEN "broadcast" ELSE "segments",
                            !.detached = DetachedAfter(after)]
    /\ last' = [LoopDid("add_segment", loop.id) EXCEPT
                   !.segment = Head(loop.segments), !.update = r.update]
    /\ UNCHANGED <<wire, main, now, threads, buffer_lock>>

\* process_streams, lines 372-373: check_timeout after the last segment
LoopCheckTimeout ==
    LET buf == LoopBuffer
        r == check_timeout(buf.accumulator, buf.stream_type, now)
        after == [buf EXCEPT !.accumulator = r.acc] IN
    /\ loop.pc = "segments"
    /\ loop.detached # <<>> \/ Registered(loop.id)
    /\ loop.segments = <<>>
    /\ audio_buffers' = BuffersAfter(after)
    /\ sink' = Produced(loop.id, r.update)
    /\ loop' = IF r.update.emitted
               THEN [loop EXCEPT !.pc = "broadcast_timeout", !.update = r.update,
                                 !.detached = DetachedAfter(after)]
               ELSE [loop EXCEPT !.pc = "for", !.id = "", !.detached = <<>>]
    /\ last' = [LoopDid("check_timeout", loop.id) EXCEPT !.update = r.update]
    /\ UNCHANGED <<wire, main, now, threads, buffer_lock>>

\* Sent with the update put in front
Sent_in_front(sent, id, update) == <<[id |-> id, update |-> update]>> \o sent

\* broadcast_transcript_update, lines 454-461: the update goes out after
\* those that went before
Sent(sent, id, update) == Append(sent, [id |-> id, update |-> update])

\* process_streams, lines 368-370 and 374-375
LoopBroadcast ==
    /\ loop.pc \in {"broadcast", "broadcast_timeout"}
    /\ sink' = [sink EXCEPT !.sent = Sent(@, loop.id, loop.update)]
    /\ loop' = IF loop.pc = "broadcast"
               THEN [loop EXCEPT !.pc = "segments", !.update = NoUpdate]
               ELSE [loop EXCEPT !.pc = "for", !.id = "", !.update = NoUpdate,
                                 !.detached = <<>>]
    /\ last' = [LoopDid("broadcast", loop.id) EXCEPT !.update = loop.update]
    /\ UNCHANGED <<wire, main, now, audio_buffers, threads, buffer_lock>>

LoopTick ==
    /\ now + LoopTickMs <= MaxLoopTicks * LoopTickMs
    /\ now' = now + LoopTickMs
    /\ UNCHANGED <<audio_buffers, threads, engine, wire, main, last>>

\* The steps of the loop thread
LoopSteps ==
    \/ LoopSnapshot
    \/ LoopNextStream
    \/ LoopLookup
    \/ LoopGetChunk
    \/ \E stalled \in BOOLEAN : LoopAsrInvoke(stalled)
    \/ \E outcome \in LoopAsrOutcomes : LoopAsrReturn(outcome)
    \/ LoopAddSegment
    \/ LoopCheckTimeout
    \/ LoopBroadcast

\* The steps of the connection thread that feeds the streams
FeedSteps(c) ==
    \/ \E id \in DOMAIN audio_buffers :
          /\ audio_buffers[id].total_samples + FromBuffer(FeedBytes) <= LoopMaxSamples
          /\ RecvStreamChunk(c, id, "bytes")
    \/ AddAcquire(c)
    \/ AddLocked(c, FeedBytes)

NextLoop == LoopSteps \/ FeedSteps(1) \/ LoopTick

SpecLoop == InitLoop /\ [][NextLoop]_vars

----------------------------------------------------------------------------
(* Claims about the processing loop *)

\* C12: the ASR engine is invoked on a streamed chunk only after the quality
\* gate has accepted that chunk.
C12_GateBeforeAsr ==
    [][Did("asr_invoke") => last'.gate = "accepted"]_vars

\* C14: the loop's visit of a registered stream never ends without a call
\* of check_timeout on that stream's accumulator, whether or not a chunk was
\* extracted.
C14_TimeoutEveryVisit ==
    [][(loop.id # "" /\ loop'.id = "")
          => (Did("check_timeout") \/ loop.pc = "broadcast_timeout")]_vars

\* C16: when the ASR engine raises, the chunk gives no segments: the return
\* changes no buffer and accumulator and hands nothing to the sink, the only
\* thing the loop then does for the stream is its check_timeout, and the
\* streams still to visit in the cycle stay so.
C16_AsrExceptionEmptyTranscript ==
    [][/\ (Did("transcribe_audio_chunk") /\ ~last'.ok)
            => /\ loop'.segments = <<>>
               /\ loop'.pc = "segments"
               /\ loop'.todo = loop.todo /\ loop'.id = loop.id
               /\ audio_buffers' = audio_buffers
               /\ sink' = sink
       /\ (loop.pc = "segments" /\ loop.segments = <<>> /\ loop' # loop)
            => /\ Did("check_timeout") /\ last'.id = loop.id
               /\ loop'.todo = loop.todo
               /\ loop'.pc \in {"for", "broadcast_timeout"}]_vars

\* C16 witness: the ASR call for one stream has raised while another stream
\* of the cycle is still to visit
C16_Witness ==
    /\ last.op = "transcribe_audio_chunk" /\ ~last.ok
    /\ loop.todo # {}
    /\ audio_buffers[loop.id].accumulator.current_sentence # <<>>

\* A chunk of stream id is ready
ChunkReady(id) ==
    should_process(audio_buffers[id], now) /\ Len(audio_buffers[id].audio_buffer) > 0

\* C17: while the ASR call for one stream never returns and a chunk is ready
\* on another stream, the loop can still take a step.
C17_StallDoesNotBlock ==
    (/\ loop.pc = "asr" /\ loop.stalled
     /\ \E id \in DOMAIN audio_buffers \ {loop.id} : ChunkReady(id))
        => ENABLED LoopSteps

\* The updates of stream id among those handed to the sink
RECURSIVE SentOf(_, _)
SentOf(sent, id) ==
    IF sent = <<>> THEN <<>>
    ELSE IF Head(sent).id = id THEN <<Head(sent).update>> \o SentOf(Tail(sent), id)
    ELSE SentOf(Tail(sent), id)

IsPrefix(a, b) == Len(a) <= Len(b) /\ SubSeq(b, 1, Len(a)) = a

\* C18: the updates of a stream handed to the sink are, in the same order,
\* the updates its accumulator returned, the last of which may still be on
\* its way.
C18_SinkOrder ==
    \A id \in StreamIds :
        /\ IsPrefix(SentOf(sink.sent, id), sink.produced[id])
        /\ Len(sink.produced[id]) - Len(SentOf(sink.sent, id)) <= 1

\* C18 witness: three updates of one stream, from two cycles, have reached
\* the sink, and an update of the other stream too
C18_Witness ==
    /\ Len(SentOf(sink.sent, "s1")) >= 3
    /\ Len(SentOf(sink.sent, "s2")) >= 1

\* C19: add_audio_data and the extraction never are inside the lock of one
\* buffer together, the loop holds no buffer lock while the ASR engine
\* runs, and an add_audio_data that waits for the lock of its buffer during
\* an ASR call can take it.
C19_LockDiscipline ==
    /\ \A c \in Conns :
          ~(conn[c].pc = "add_locked" /\ loop.pc = "get_locked" /\ conn[c].id = loop.id)
    /\ loop.pc = "asr" => \A id \in StreamIds : buffer_lock[id] # "loop"
    /\ \A c \in Conns :
          (loop.pc = "asr" /\ conn[c].pc = "add_data" /\ Registered(conn[c].id))
              => ENABLED AddAcquire(c)

\* C19 witness: a connection is inside add_audio_data on the stream whose
\* chunk is with the ASR engine, in a call that never returns
C19_Witness ==
    /\ loop.pc = "asr" /\ loop.stalled
    /\ conn[1].pc = "add_locked" /\ conn[1].id = loop.id

----------------------------------------------------------------------------
(* SpecWire: one client and the bytes of its connection.  The client sends *)
(* its records as the test client does, json.dumps(request) and a newline, *)
(* a start_stream first, then stream_chunk records, then a stop_stream,    *)
(* and it need not wait for a reply before it sends the next record.  The  *)
(* bytes in flight are kept as runs: bytes from to to of record rec, the   *)
(* last byte of a record being its newline.                                *)

\* conn.recv(8192)
RecvBufSize == 8192

\* Records one client sends
MaxRecords == 4

\* len(base64.b64encode(audio_data)) for audio_data of n bytes
Base64Len(n) == 4 * ((n + 2) \div 3)

\* The audio_data of a stream_chunk record, in bytes: min_samples samples,
\* and as many bytes as one recv returns
WirePayloadBytes == {4 * min_samples, RecvBufSize}

\* The records of the client's start_stream, send_audio_chunk and
\* stop_stream; the stream_type of a start_stream record is passed on as it
\* comes (handle_client, line 1008), so a record can carry any string
ClientRecords ==
    [kind : {"start_stream"}, id : {"s1"},
     stream_type : RequestStreamTypes \cup {"speaker"}, nbytes : {0}]
    \cup [kind : {"stream_chunk"}, id : {"s1"}, stream_type : {""}, nbytes : WirePayloadBytes]
    \cup [kind : {"stop_stream"}, id : {"s1"}, stream_type : {""}, nbytes : {0}]

\* len(json.dumps(request).encode() + b'\n') with a stream_id of two
\* characters
RecordLen(rec) ==
    CASE rec.kind = "stream_chunk" -> 61 + Base64Len(rec.nbytes) + 1
      [] rec.kind = "start_stream" ->
            62 + (CASE rec.stream_type = "microphone" -> 10
                    [] rec.stream_type = "system" -> 6
                    [] rec.stream_type = "speaker" -> 7) + 1
      [] rec.kind = "stop_stream" -> 42 + 1

\* socket.send of the record numbered k
Sendall(k, rec) == [rec |-> k, from |-> 1, to |-> RecordLen(rec)]

RunLen(run) == run.to - run.from + 1

\* conn.recv(n): the first n bytes in flight, or all of them if they are
\* fewer, and the bytes left in flight
RECURSIVE Take(_, _)
Take(runs, n) ==
    IF n = 0 \/ runs = <<>> THEN [data |-> <<>>, rest |-> runs]
    ELSE LET h == Head(runs) IN
         IF RunLen(h) <= n
         THEN LET t == Take(Tail(runs), n - RunLen(h)) IN
              [data |-> <<h>> \o t.data, rest |-> t.rest]
         ELSE [data |-> <<[h EXCEPT !.to = h.from + n - 1]>>,
               rest |-> <<[h EXCEPT !.from = h.from + n]>> \o Tail(runs)]

\* str.strip() at the left end: a run that starts at the newline of its
\* record is that newline alone
RECURSIVE LStripData(_, _)
LStripData(runs, records) ==
    IF runs # <<>> /\ Head(runs).from = RecordLen(records[Head(runs).rec])
    THEN LStripData(Tail(runs), records)
    ELSE runs

\* str.strip() at the right end
RECURSIVE RStripData(_, _)
RStripData(runs, records) ==
    IF runs = <<>> THEN runs
    ELSE LET l == runs[Len(runs)]
             front == SubSeq(runs, 1, Len(runs) - 1)
         IN  IF l.to # RecordLen(records[l.rec]) THEN runs
             ELSE IF l.from = l.to THEN RStripData(front, records)
             ELSE front \o <<[l EXCEPT !.to = l.to - 1]>>

NoRequest == [kind |-> "", id |-> "", stream_type |-> "", nbytes |-> 0]

\* handle_client, line 993: json.loads(data.decode().strip()) returns the
\* request when the stripped data is the whole text of one record, and
\* raises JSONDecodeError on anything else; data of newlines only is blank
JsonLoads(data, records) ==
    LET text == RStripData(LStripData(data, records), records) IN
    IF text = <<>> THEN [shape |-> "blank", request |-> NoRequest]
    ELSE IF /\ Len(text) = 1
            /\ text[1].from = 1
            /\ text[1].to = RecordLen(records[text[1].rec]) - 1
    THEN [shape |-> "json", request |-> records[text[1].rec]]
    ELSE [shape |-> "not_json", request |-> NoRequest]

\* What the recv of line 987 returns on connection c, decoded
Received(c) == JsonLoads(Take(wire[c].inbound, RecvBufSize).data, wire[c].records)

\* The recv has taken its bytes, and the client gets the reply, if any
Consumed(c, reply) ==
    wire' = [wire EXCEPT ![c].inbound = Take(wire[c].inbound, RecvBufSize).rest,
                         ![c].replies = IF reply = "none" THEN @ ELSE Append(@, reply)]

\* The client of connection c sends rec
ClientSend(c, rec) ==
    /\ conn[c].pc = "recv"
    /\ Len(wire[c].records) < MaxRecords
    /\ IF rec.kind = "start_stream" THEN wire[c].records = <<>>
       ELSE /\ wire[c].records # <<>>
            /\ wire[c].records[Len(wire[c].records)].kind # "stop_stream"
    /\ wire' = [wire EXCEPT ![c].records = Append(@, rec),
                            ![c].inbound = Append(@, Sendall(Len(wire[c].records) + 1, rec))]
    /\ last' = [NoLast EXCEPT !.op = "send", !.conn = c, !.kind = rec.kind, !.id = rec.id]
    /\ UNCHANGED <<main, now, audio_buffers, threads, loop, buffer_lock, sink>>

\* handle_client, lines 987-993 and 1005-1016, with start_stream
WireStartStream(c) ==
    LET request == Received(c).request
        ok == ~Registered(request.id) IN
    /\ conn[c].pc = "recv" /\ wire[c].inbound # <<>>
    /\ Received(c).shape = "json" /\ request.kind = "start_stream"
    /\ audio_buffers' = IF ok THEN MapPut(audio_buffers, request.id,
                                          NewBuffer(request.stream_type, now))
                        ELSE audio_buffers
    /\ active_streams' = IF ok THEN active_streams \cup {request.id} ELSE active_streams
    /\ started_by' = IF ok THEN [started_by EXCEPT ![request.id] = c] ELSE started_by
    /\ client_streams' = [client_streams EXCEPT ![c] = @ \cup {request.id}]
    /\ Consumed(c, IF ok THEN "success" ELSE "success_false")
    /\ last' = Returned(c, "start_stream", request.id, ok, 1,
                        IF ok THEN "success" ELSE "success_false")
    /\ UNCHANGED <<main, now, conn, loop, buffer_lock, sink>>

\* handle_client, lines 987-993 and 1018-1029, with stop_stream
WireStopStream(c) ==
    LET request == Received(c).request
        ok == Registered(request.id) IN
    /\ conn[c].pc = "recv" /\ wire[c].inbound # <<>>
    /\ Received(c).shape = "json" /\ request.kind = "stop_stream"
    /\ audio_buffers' = IF ok THEN MapDel(audio_buffers, request.id) ELSE audio_buffers
    /\ active_streams' = active_streams \ {request.id}
    /\ started_by' = IF ok THEN [started_by EXCEPT ![request.id] = 0] ELSE started_by
    /\ client_streams' = [client_streams EXCEPT ![c] = @ \ {request.id}]
    /\ Consumed(c, IF ok THEN "success" ELSE "success_false")
    /\ last' = Returned(c, "stop_stream", request.id, ok, 1,
                        IF ok THEN "success" ELSE "success_false")
    /\ UNCHANGED <<main, now, conn, loop, buffer_lock, sink>>

\* handle_client, lines 987-993 and 1031-1048, with add_audio_chunk
WireStreamChunk(c) ==
    LET request == Received(c).request
        ok == Registered(request.id) /\ FromBuffer(request.nbytes) >= 0 IN
    /\ conn[c].pc = "recv" /\ wire[c].inbound # <<>>
    /\ Received(c).shape = "json" /\ request.kind = "stream_chunk"
    /\ audio_buffers' = IF ok THEN [audio_buffers EXCEPT ![request.id] =
                                       add_audio_data(@, FromBuffer(request.nbytes))]
                        ELSE audio_buffers
    /\ Consumed(c, IF ok THEN "success" ELSE "success_false")
    /\ last' = [Returned(c, "stream_chunk", request.id, ok, 1,
                         IF ok THEN "success" ELSE "success_false")
                   EXCEPT !.samples = IF ok THEN FromBuffer(request.nbytes) ELSE 0]
    /\ UNCHANGED <<main, now, threads, loop, buffer_lock, sink>>

\* handle_client, lines 987-993 and 1086-1110: the data is not the text of
\* one JSON value, and is taken for the path of an audio file, which no file
\* has; blank data is passed over
WireMalformed(c) ==
    LET r == transcribe_chunk(FALSE, CHOOSE a \in Analyses : a.error, [raises |-> FALSE, nsegs |-> 0])
        blank == Received(c).shape = "blank" IN
    /\ conn[c].pc = "recv" /\ wire[c].inbound # <<>>
    /\ Received(c).shape # "json"
    /\ Consumed(c, IF blank THEN "none" ELSE r.result)
    /\ last' = IF blank THEN Reply(c, "malformed", "", FALSE, 0, "none")
               ELSE Reply(c, "malformed", "", FALSE, r.live + 1, r.result)
    /\ UNCHANGED <<main, now, audio_buffers, threads, loop, buffer_lock, sink>>

NextWire ==
    \/ Accept(1)
    \/ \E rec \in ClientRecords : ClientSend(1, rec)
    \/ WireStartStream(1)
    \/ WireStopStream(1)
    \/ WireStreamChunk(1)
    \/ WireMalformed(1)

SpecWire == Init /\ [][NextWire]_vars

\* C23: a recv that begins at the first byte of a stream_chunk record for a
\* registered stream takes that record and no other byte, answers it with
\* one success reply, and the stream's buffer grows by the samples of the
\* record's audio_data.
C23_ChunkRecordOneCommand ==
    [][\A c \in Conns :
        LET w == wire[c] IN
        (/\ w.inbound # <<>>
         /\ wire'[c].records = w.records
         /\ wire'[c].inbound # w.inbound
         /\ Head(w.inbound).from = 1
         /\ w.records[Head(w.inbound).rec].kind = "stream_chunk"
         /\ Registered(w.records[Head(w.inbound).rec].id))
        => LET rec == w.records[Head(w.inbound).rec] IN
           /\ wire'[c].inbound = Tail(w.inbound)
           /\ wire'[c].replies = Append(w.replies, "success")
           /\ rec.id \in DOMAIN audio_buffers'
           /\ audio_buffers'[rec.id].total_samples
                = audio_buffers[rec.id].total_samples + rec.nbytes \div 4]_vars

\* C27: the stream type of every registered stream is microphone or system,
\* and a stream id keeps its type for as long as it stays registered.
C27_StreamTypeFixed ==
    [][\A id \in DOMAIN audio_buffers' :
          /\ audio_buffers'[id].stream_type \in StreamTypes
          /\ id \in DOMAIN audio_buffers
                => audio_buffers'[id].stream_type = audio_buffers[id].stream_type]_vars

----------------------------------------------------------------------------
(* SpecStop: the processing loop of SpecLoop and the shutdown of run *)

\* self.processing_thread.join(timeout=2), in ms
JoinTimeoutMs == 2000

\* process_streams, line 353: the while test finds running cleared, and
\* process_streams returns
LoopExit ==
    /\ loop.pc = "while"
    /\ ~main.running
    /\ loop' = [NoLoop EXCEPT !.pc = "done"]
    /\ last' = LoopDid("exit", "")
    /\ UNCHANGED <<wire, main, now, audio_buffers, threads, buffer_lock, sink>>

\* run, lines 478-485: the accept loop is interrupted, the finally block
\* clears running and calls join
MainInterrupt ==
    /\ main.pc = "serve"
    /\ main' = [pc |-> "join", running |-> FALSE, join_at |-> now]
    /\ last' = [NoLast EXCEPT !.op = "interrupt", !.kind = "main"]
    /\ UNCHANGED <<wire, now, audio_buffers, threads, engine>>

\* run, lines 485-488: join returns when the thread has ended or the
\* timeout has passed; the server socket is closed and run returns, and the
\* process with it, for the other threads are daemon threads
MainJoinReturns ==
    /\ main.pc = "join"
    /\ loop.pc \in {"done", "dead"} \/ now - main.join_at >= JoinTimeoutMs
    /\ main' = [main EXCEPT !.pc = "exited"]
    /\ last' = [NoLast EXCEPT !.op = "join", !.kind = "main", !.ok = (loop.pc \in {"done", "dead"})]
    /\ UNCHANGED <<wire, now, audio_buffers, threads, engine>>

\* Nothing runs after run has returned
Running(A) == main.pc # "exited" /\ A

\* Time passes; once join has been called it is taken to pass only while
\* model.transcribe runs, the other steps of the loop being short
StopTick ==
    /\ main.pc = "serve" \/ (main.pc = "join" /\ loop.pc = "asr")
    /\ LoopTick

NextStop ==
    \/ Running(LoopSteps)
    \/ Running(LoopExit)
    \/ Running(FeedSteps(1))
    \/ StopTick
    \/ MainInterrupt
    \/ MainJoinReturns

SpecStop == InitLoop /\ [][NextStop]_vars

\* C26: once running is cleared the loop starts no further cycle, and when
\* run returns and the process ends, the thread of process_streams has
\* ended (looked at when no ASR call is one that never returns).
C26_LoopJoinedBeforeExit ==
    /\ (~main.running /\ loop.pc = "while") => ~ENABLED LoopSnapshot
    /\ (main.pc = "exited" /\ ~loop.stalled) => loop.pc \in {"done", "dead"}

----------------------------------------------------------------------------
(* SpecRace: the processing loop of SpecLoop while the connection that     *)
(* feeds the streams also stops them, by request and by disconnecting.     *)

\* The steps of connection c that stop streams
StopSteps(c) ==
    \/ \E id \in StreamIds : RecvStopStream(c, id)
    \/ StopLookup(c)
    \/ StopDel(c)
    \/ StopDiscard(c)
    \/ Disconnect(c)
    \/ CleanupNext(c)

NextRace ==
    \/ LoopSteps
    \/ FeedSteps(1)
    \/ StopSteps(1)
    \/ LoopTick

SpecRace == InitLoop /\ [][NextRace]_vars

\* C29: the thread of process_streams does not end while running is set.
C29_LoopSurvives ==
    main.running => loop.pc # "dead"

\* C33: once stop_stream(id) has returned success, the loop extracts no
\* chunk from the removed buffer, changes nothing in its accumulator, and
\* hands no update of the stream to the broadcast sink.  stop_stream(id) has
\* returned success when the stream is out of the registry and no thread is
\* inside a stop_stream for it.
C33_NoWorkAfterStop ==
    [][\A id \in StreamIds :
        (/\ ~Registered(id)
         /\ id \notin active_streams
         /\ \A c \in Conns :
               ~(conn[c].id = id
                 /\ conn[c].pc \in {"stop_lookup", "stop_del", "stop_discard"})) =>
            /\ ~(Did("get_chunk_if_ready") /\ last'.id = id /\ last'.ready)
            /\ (loop.id = id /\ loop.detached # <<>> /\ loop'.detached # <<>>)
                  => loop'.detached[1].accumulator = loop.detached[1].accumulator
            /\ SentOf(sink'.sent, id) = SentOf(sink.sent, id)]_vars

====
